---- MODULE Spec2Model ----
(***************************************************************************)
(* MrBoxman rig synthesis: the rigger factory, the recursive traversal of  *)
(* the boxman tree by the rigger classes, and the phases of auto_rig,      *)
(* modelled from mrBoxman/boxman/boxmanriglogic.py, boxmanrig.py and       *)
(* boxmanclasses.py.                                                       *)
(***************************************************************************)
EXTENDS Integers, Sequences, FiniteSets, TLC

VARIABLES
    tree,       \* the BoxmanDTO handed to autorig_boxman (read only)
    pc,         \* position of the run inside autorig_boxman / auto_rig
    phase,      \* which of auto_rig's four loops is running (0: none yet)
    mode,       \* host editing mode: "OBJECT", "EDIT" or "POSE"
    modeSets,   \* number of bpy.ops.object.mode_set calls made by auto_rig
    trace,      \* steps of root_rigger.rig(context) still to be taken
    riggers,    \* rigger objects constructed so far, in construction order
    bones,      \* edit bones created so far, in creation order
    queues,     \* the four stored_*_fixture lists shared by all riggers
    executed,   \* deferred actions executed so far, in execution order
    armature,   \* where the armature object is linked
    error,      \* the exception caught by autorig_boxman, or NoErr
    raised,     \* the exception that left autorig_boxman, or NoErr
    fq,         \* a (parent, child) request put to the factory on its own
    control,    \* a BoxmanRigControl: its name and vertex_list
    vertex_array \* the vertex list handed to scale_to_boxman

vars == <<tree, pc, phase, mode, modeSets, trace, riggers, bones, queues, executed,
          armature, error, raised, fq, control, vertex_array>>

None == "<None>"

\* ------------------------------------------------------------------------
\* Joint types (boxmanclasses.BoxmanJointTypes) and orientations
\* ------------------------------------------------------------------------
JointTypes ==
    { "DEFAULT", "OBJECT_ROOT", "SPINE_ROOT", "SPINE_SECTION", "NECK_ROOT",
      "NECK_SECTION", "HEAD", "FINGER_ROOT", "FINGER_SECTION", "HAND_ROOT",
      "ACCESSORY", "SHOULDER_ROOT", "ARM_HUMERUS", "ARM_RADIUS", "ARM_ELBOW",
      "LEG_THIGH", "LEG_SHIN", "LEG_KNEE", "FOOT_ROOT", "TOE_ROOT",
      "TOE_SECTION", "CHAIN_ROOT", "CHAIN_SEGMENT" }

\* a joint_type string that is no BoxmanJointTypes value (the property is a
\* free string on the host object)
UnknownJointType == "TENTACLE"

Orientations == {"L", "R", "C"}

\* ------------------------------------------------------------------------
\* RigTypeFactory
\* ------------------------------------------------------------------------
type_dictionary ==
    [ OBJECT_ROOT    |-> "RootRigger",
      DEFAULT        |-> "DefaultRigger",
      ACCESSORY      |-> "AccessoryRigger",
      SHOULDER_ROOT  |-> "ShoulderRigger",
      ARM_HUMERUS    |-> "HumerusRigger",
      ARM_RADIUS     |-> "RadiusRigger",
      ARM_ELBOW      |-> "ElbowRigger",
      HAND_ROOT      |-> "HandRootRigger",
      FINGER_ROOT    |-> "FingerRootRigger",
      FINGER_SECTION |-> "FingerSectionRigger",
      LEG_THIGH      |-> "ThighRigger",
      LEG_KNEE       |-> "KneeRigger",
      LEG_SHIN       |-> "ShinRigger",
      SPINE_ROOT     |-> "SpineRootRigger",
      SPINE_SECTION  |-> "SpineSectionRigger",
      NECK_ROOT      |-> "NeckRootRigger",
      NECK_SECTION   |-> "NeckSectionRigger",
      HEAD           |-> "HeadRigger",
      FOOT_ROOT      |-> "FeetRigger",
      TOE_ROOT       |-> "ToeRootRigger",
      TOE_SECTION    |-> "ToeSectionRigger",
      CHAIN_ROOT     |-> "ChainRootRigger",
      CHAIN_SEGMENT  |-> "ChainSegmentRigger" ]

root_key == {"OBJECT_ROOT"}

ik_direct_keys == {"FOOT_ROOT", "HAND_ROOT", "CHAIN_SEGMENT"}

forbidden_matrix ==
    [ OBJECT_ROOT    |-> root_key \cup ik_direct_keys,
      DEFAULT        |-> root_key \cup ik_direct_keys,
      ACCESSORY      |-> {},
      SHOULDER_ROOT  |-> root_key \cup ik_direct_keys,
      ARM_HUMERUS    |-> root_key \cup ik_direct_keys \cup {"LEG_SHIN"},
      ARM_RADIUS     |-> root_key \cup {"FOOT_ROOT", "CHAIN_SEGMENT"},
      ARM_ELBOW      |-> root_key \cup ik_direct_keys,
      HAND_ROOT      |-> root_key \cup ik_direct_keys,
      FINGER_ROOT    |-> root_key \cup ik_direct_keys,
      FINGER_SECTION |-> root_key \cup ik_direct_keys,
      LEG_THIGH      |-> root_key \cup ik_direct_keys \cup {"ARM_RADIUS"},
      LEG_KNEE       |-> root_key \cup ik_direct_keys,
      LEG_SHIN       |-> root_key \cup {"HAND_ROOT", "CHAIN_SEGMENT"},
      SPINE_ROOT     |-> root_key \cup ik_direct_keys,
      SPINE_SECTION  |-> root_key \cup ik_direct_keys,
      NECK_ROOT      |-> root_key \cup ik_direct_keys,
      NECK_SECTION   |-> root_key \cup ik_direct_keys,
      HEAD           |-> root_key \cup ik_direct_keys,
      FOOT_ROOT      |-> root_key \cup ik_direct_keys,
      TOE_ROOT       |-> root_key \cup ik_direct_keys,
      TOE_SECTION    |-> root_key \cup ik_direct_keys,
      CHAIN_ROOT     |-> root_key \cup {"HAND_ROOT", "FOOT_ROOT"},
      CHAIN_SEGMENT  |-> root_key \cup {"HAND_ROOT", "FOOT_ROOT"} ]

\* exceptions: the Python class, what raised it, and the rigger it names
NoErr == [cls |-> "", why |-> "", at |-> ""]

Err(cls, why, at) == [cls |-> cls, why |-> why, at |-> at]

\* the three tests of create_rigger, in the order the code makes them
UnsupportedType(jt) == jt \notin DOMAIN type_dictionary

MatrixLookupFails(parentJt) == parentJt \notin DOMAIN forbidden_matrix

\* the matrix read by the child's row
ForbiddenAbove(parentJt, jt) == parentJt \in forbidden_matrix[jt]

ForbiddenUnder(parentJt, jt) == jt \in forbidden_matrix[parentJt]

\* the factory with the matrix lookup ahead of the type lookup
create_rigger_matrix_first(jt, hasParent, parentJt, parentCls) ==
    IF hasParent /\ MatrixLookupFails(parentJt)
    THEN [err |-> Err("KeyError", "forbidden_matrix", None),
          cls |-> None, consulted |-> TRUE]
    ELSE IF hasParent /\ ForbiddenUnder(parentJt, jt)
    THEN [err |-> Err("RiggerException", "IncompatibleChain", parentCls),
          cls |-> None, consulted |-> TRUE]
    ELSE IF UnsupportedType(jt)
    THEN [err |-> Err("NotImplementedError", "UnsupportedJointType", None),
          cls |-> None, consulted |-> hasParent]
    ELSE [err |-> NoErr, cls |-> type_dictionary[jt], consulted |-> hasParent]

\* the factory without the test of the compatibility matrix
create_rigger_unchecked(jt, hasParent, parentJt, parentCls) ==
    IF UnsupportedType(jt)
    THEN [err |-> Err("NotImplementedError", "UnsupportedJointType", None),
          cls |-> None, consulted |-> FALSE]
    ELSE IF hasParent /\ MatrixLookupFails(parentJt)
    THEN [err |-> Err("KeyError", "forbidden_matrix", None),
          cls |-> None, consulted |-> TRUE]
    ELSE [err |-> NoErr, cls |-> type_dictionary[jt], consulted |-> hasParent]

\* create_rigger(selected_object, parent_rigger): hasParent is
\* "parent_rigger is not None", parentJt and parentCls describe the parent.
\* The result names the exception raised (or NoErr), the class constructed
\* (or None) and whether forbidden_matrix was looked up.
create_rigger(jt, hasParent, parentJt, parentCls) ==
    IF UnsupportedType(jt)
    THEN [err |-> Err("NotImplementedError", "UnsupportedJointType", None),
          cls |-> None, consulted |-> FALSE]
    ELSE IF hasParent /\ MatrixLookupFails(parentJt)
    THEN [err |-> Err("KeyError", "forbidden_matrix", None),
          cls |-> None, consulted |-> TRUE]
    ELSE IF hasParent /\ ForbiddenUnder(parentJt, jt)
    THEN [err |-> Err("RiggerException", "IncompatibleChain", parentCls),
          cls |-> None, consulted |-> TRUE]
    ELSE [err |-> NoErr, cls |-> type_dictionary[jt], consulted |-> hasParent]

\* ------------------------------------------------------------------------
\* RiggerBase: constants, names, rigger objects
\* ------------------------------------------------------------------------
DEFAULT_LAYER_INDEX == 0
CONTROL_LAYER_INDEX == 1
MAYORS_LAYER_INDEX == 2
MINORS_LAYER_INDEX == 3
ARM_LAYER_INDEX == 4
HAND_LAYER_INDEX == 5
LEG_LAYER_INDEX == 6
FEET_LAYER_INDEX == 7
SPINE_LAYER_INDEX == 8
HEAD_LAYER_INDEX == 9
CHAIN_LAYER_INDEX == 10
GLOBAL_LAYER_INDEX == 31

\* BoxmanMeshDTO.get_object_name
get_object_name(node) == "bxm." \o node.orient \o "." \o node.name

get_main_collection_name(self) == self.armature_object_name \o "_COLL"

get_control_mesh_collection_name(self) ==
    self.armature_object_name \o "_COLL_MESHCTRL"

get_mesh_object_collection_name(self) ==
    self.armature_object_name \o "_COLL_MESH"

get_root_control_name(armature_name) == armature_name \o "_ROOT_CTRL"

get_default_control_name(armature_name) == armature_name \o "_DEFAULT_CTRL"

get_pole_target_control_name(armature_name) == armature_name \o "_POLE_CTRL"

get_default_ik_control_name(armature_name) == armature_name \o "_IK_CTRL"

\* an edit bone is identified by the rigger that created it (its path in the
\* tree) and by whether it is the rigger's own bone or its control bone
BoneId(path, role) == [o |-> path, r |-> role]

NoBone == BoneId(<<>>, "none")

\* a constructor that keeps the fresh stored_*_fixture lists of a rigger that
\* the factory did not make
NewRiggerOwnLists(node, path, hasParent, parent, cls, byFactory) ==
    [ path |-> path,
      node |-> node,
      cls |-> cls,
      byFactory |-> byFactory,
      hasParent |-> hasParent,
      parentPath |-> IF hasParent THEN parent.path ELSE <<>>,
      parentCls |-> IF hasParent THEN parent.cls ELSE None,
      parentBoneName |->
          IF hasParent THEN get_object_name(parent.node) ELSE None,
      armature_object_name |->
          IF hasParent THEN parent.armature_object_name
          ELSE "Armature_" \o node.name,
      absolute_root_rigger |->
          IF hasParent THEN parent.absolute_root_rigger ELSE path,
      fixture |-> IF hasParent /\ byFactory THEN parent.fixture ELSE path,
      local_control_root |->
          IF cls \in {"SpineRootRigger", "SpineSectionRigger"} THEN path
          ELSE IF hasParent THEN parent.local_control_root ELSE path,
      control_bone |-> NoBone,
      control_name |-> None,
      offset_sign |-> 1,
      pole_target_bone |-> None,
      pole_target_offset |-> 1,
      place_on_head |-> cls # "ChainSegmentRigger",
      affect_parent |-> cls # "ChainSegmentRigger",
      angle_orient |-> cls = "HandRootRigger",
      chain_length |-> IF cls = "ChainRootRigger" THEN 2 ELSE 0 ]

\* RiggerBase.__init__ followed by the subclass constructors: the object as
\* it is when create_rigger (or AccessoryRigger.rig) hands it over;
\* fixture names the rigger whose __init__ made the four stored_* lists that
\* this rigger holds
NewRigger(node, path, hasParent, parent, cls, byFactory) ==
    [ path |-> path,
      node |-> node,
      cls |-> cls,
      byFactory |-> byFactory,
      hasParent |-> hasParent,
      parentPath |-> IF hasParent THEN parent.path ELSE <<>>,
      parentCls |-> IF hasParent THEN parent.cls ELSE None,
      parentBoneName |->
          IF hasParent THEN get_object_name(parent.node) ELSE None,
      armature_object_name |->
          IF hasParent THEN parent.armature_object_name
          ELSE "Armature_" \o node.name,
      absolute_root_rigger |->
          IF hasParent THEN parent.absolute_root_rigger ELSE path,
      fixture |-> IF hasParent THEN parent.fixture ELSE path,
      local_control_root |->
          IF cls \in {"SpineRootRigger", "SpineSectionRigger"} THEN path
          ELSE IF hasParent THEN parent.local_control_root ELSE path,
      control_bone |-> NoBone,
      control_name |-> None,
      offset_sign |-> 1,
      pole_target_bone |-> None,
      pole_target_offset |-> 1,
      place_on_head |-> cls # "ChainSegmentRigger",
      affect_parent |-> cls # "ChainSegmentRigger",
      angle_orient |-> cls = "HandRootRigger",
      chain_length |-> IF cls = "ChainRootRigger" THEN 2 ELSE 0 ]

\* ------------------------------------------------------------------------
\* Steps of the traversal and deferred actions
\* ------------------------------------------------------------------------
\* a deferred action: the static method the closure calls and the arguments
\* the closure captured when it was appended
Act(fn, owner) ==
    [ fn |-> fn, owner |-> owner, bone |-> None, mesh |-> None,
      coll |-> None, arm |-> None, target |-> None, pole |-> None,
      n |-> 0, angle |-> 0, layers |-> <<>> ]

Step(op) ==
    [ op |-> op, path |-> <<>>, jt |-> None, cls |-> None, byFactory |-> FALSE,
      bone |-> NoBone, name |-> None, parent |-> NoBone, connect |-> FALSE,
      q |-> None, act |-> Act(None, <<>>), err |-> NoErr,
      armature_object_name |-> None, absolute_root_rigger |-> <<>>,
      local_control_root |-> <<>>, fixture |-> <<>>,
      pole_target_bone |-> None, pole_target_offset |-> 0, head |-> None,
      chain_length |-> 0 ]

Construct(r) ==
    [Step("construct") EXCEPT
        !.path = r.path, !.jt = r.node.jt, !.cls = r.cls,
        !.byFactory = r.byFactory,
        !.armature_object_name = r.armature_object_name,
        !.absolute_root_rigger = r.absolute_root_rigger,
        !.local_control_root = r.local_control_root,
        !.fixture = r.fixture,
        !.pole_target_bone = r.pole_target_bone,
        !.pole_target_offset = r.pole_target_offset,
        !.chain_length = r.chain_length]

\* the bone of a rigger, whose head is put on the location of its object
AddBone(id, name) ==
    [Step("bone") EXCEPT !.bone = id, !.name = name, !.head = "location"]

\* a control bone, whose head is put on the head or the tail of the bone of
\* its rigger ("head", "tail") or at an offset from its head ("head_offset")
AddBoneAt(id, name, head) ==
    [Step("bone") EXCEPT !.bone = id, !.name = name, !.head = head]

SetParent(id, parentId, connect) ==
    [Step("parent") EXCEPT !.bone = id, !.parent = parentId,
                           !.connect = connect]

SetConnect(id, connect) ==
    [Step("connect") EXCEPT !.bone = id, !.connect = connect]

Queue(q, act) == [Step("queue") EXCEPT !.q = q, !.act = act]

\* outcome of rig(): the steps taken, the exception raised (or NoErr) and
\* the attributes of the rigger its caller reads afterwards
Done(self, ev, bone, name) ==
    [ ev |-> ev, err |-> NoErr, cls |-> self.cls, bone |-> bone,
      name |-> name, control_bone |-> self.control_bone,
      control_name |-> self.control_name, offset_sign |-> self.offset_sign ]

Raised(self, ev, err) ==
    [ ev |-> ev, err |-> err, cls |-> self.cls, bone |-> NoBone,
      name |-> None, control_bone |-> NoBone, control_name |-> None,
      offset_sign |-> 0 ]

\* ------------------------------------------------------------------------
\* RiggerBase queue helpers
\* ------------------------------------------------------------------------
queue_parent_object_to_rig(self, boneName) ==
    Queue("parenting",
          [Act("parent_object_to_rig", self.path) EXCEPT
              !.bone = boneName, !.mesh = get_object_name(self.node),
              !.arm = self.armature_object_name])

\* collection None is the scene collection
queue_link_mesh_to_collection(self, coll, mesh) ==
    Queue("collection_assignments",
          [Act("link_mesh_to_collection", self.path) EXCEPT
              !.coll = coll, !.mesh = mesh])

queue_unlink_mesh_from_collection(self, coll, mesh) ==
    Queue("collection_assignments",
          [Act("unlink_mesh_to_collection", self.path) EXCEPT
              !.coll = coll, !.mesh = mesh])

\* the layer action with the layers counted from one
queue_add_bone_to_layers_from_one(self, layers, boneName) ==
    Queue("control_creation",
          [Act("add_bone_to_layers", self.path) EXCEPT
              !.layers = [k \in 1..Len(layers) |-> layers[k] + 1],
              !.bone = boneName,
              !.arm = self.armature_object_name])

queue_add_bone_to_group(self, group, boneName) ==
    Queue("control_creation",
          [Act("add_bone_to_group", self.path) EXCEPT
              !.target = group, !.bone = boneName,
              !.arm = self.armature_object_name])

queue_add_bone_to_layers(self, layers, boneName) ==
    Queue("control_creation",
          [Act("add_bone_to_layers", self.path) EXCEPT
              !.layers = layers, !.bone = boneName,
              !.arm = self.armature_object_name])

\* a control-creation closure that captures a bone name and the armature
ControlAct(self, fn, boneName) ==
    Queue("control_creation",
          [Act(fn, self.path) EXCEPT
              !.bone = boneName, !.arm = self.armature_object_name])

\* a mesh-creation closure that captures the armature name
MeshAct(self, fn, boneName) ==
    Queue("mesh_creation",
          [Act(fn, self.path) EXCEPT
              !.bone = boneName, !.arm = self.armature_object_name])

\* ------------------------------------------------------------------------
\* The traversal: rig() of every rigger class
\* ------------------------------------------------------------------------
OwnBone(self) == BoneId(self.path, "bone")

OwnControl(self) == BoneId(self.path, "ctrl")

BoneName(self) == get_object_name(self.node)

\* 1..n as a sequence, and the children of a rigger's object selected by
\* joint type, in the order of linked_object.children
Indexes(n) == [i \in 1..n |-> i]

RECURSIVE SelectIdx(_, _, _, _)
SelectIdx(kids, i, jt, want) ==
    IF i > Len(kids) THEN <<>>
    ELSE (IF (kids[i].jt = jt) = want THEN <<i>> ELSE <<>>)
         \o SelectIdx(kids, i + 1, jt, want)

ChildrenOfType(self, jt) == SelectIdx(self.node.kids, 1, jt, TRUE)

ChildrenNotOfType(self, jt) == SelectIdx(self.node.kids, 1, jt, FALSE)

\* attributes a parent assigns on a child rigger between create_rigger and
\* the child's rig()
NoPre ==
    [ fam |-> {}, control_bone |-> NoBone, control_name |-> None,
      chain |-> -1, setPole |-> FALSE, pole |-> None, poleOffset |-> 0 ]

Preset(r, pre) ==
    [r EXCEPT
        !.control_bone = IF r.cls \in pre.fam THEN pre.control_bone ELSE @,
        !.control_name = IF r.cls \in pre.fam THEN pre.control_name ELSE @,
        !.chain_length = IF pre.chain >= 0 THEN pre.chain ELSE @,
        !.pole_target_bone = IF pre.setPole THEN pre.pole ELSE @,
        !.pole_target_offset = IF pre.setPole THEN pre.poleOffset ELSE @]

\* the Python call stack: rig() of a rigger calls create_rigger and rig()
\* for its children, whose class decides which rig() runs
RECURSIVE Invoke(_)

Rig(self) == Invoke([op |-> "rig", self |-> self])

RigOne(self, i, pre, noneCheck, connect, parentBone) ==
    Invoke([op |-> "child", self |-> self, i |-> i, pre |-> pre,
            noneCheck |-> noneCheck, connect |-> connect,
            parentBone |-> parentBone])

RigMany(self, idxs, pre, noneCheck, connect) ==
    Invoke([op |-> "children", self |-> self, idxs |-> idxs, pre |-> pre,
            noneCheck |-> noneCheck, connect |-> connect])

AccessoryChildren(self, i) ==
    Invoke([op |-> "accessory_children", self |-> self, i |-> i])

\* one child: factory.create_rigger(child, self); child_rigger.rig(context);
\* then child_bone.parent / use_connect, guarded or not by "is not None"
RigChild(self, i, pre, noneCheck, connect, parentBone) ==
    LET child == self.node.kids[i]
        made == create_rigger(child.jt, TRUE, self.node.jt, self.cls)
        r == Preset(NewRigger(child, Append(self.path, i), TRUE, self,
                              made.cls, TRUE), pre)
        out == Rig(r)
    IN IF made.err # NoErr THEN Raised(self, <<>>, made.err)
       ELSE IF out.err # NoErr
       THEN [out EXCEPT !.ev = <<Construct(r)>> \o out.ev]
       ELSE IF out.bone # NoBone
       THEN [out EXCEPT !.ev = <<Construct(r)>> \o out.ev
                              \o <<SetParent(out.bone, parentBone, connect)>>]
       ELSE IF noneCheck
       THEN [out EXCEPT !.ev = <<Construct(r)>> \o out.ev]
       ELSE Raised(self, <<Construct(r)>> \o out.ev,
                   Err("AttributeError", "child_bone is None", self.cls))

\* a loop over children: stops at the first exception
RigChildren(self, idxs, pre, noneCheck, connect) ==
    IF idxs = <<>> THEN [ev |-> <<>>, err |-> NoErr, outs |-> <<>>]
    ELSE LET h == RigOne(self, Head(idxs), pre, noneCheck, connect,
                         OwnBone(self))
         IN IF h.err # NoErr
            THEN [ev |-> h.ev, err |-> h.err, outs |-> <<>>]
            ELSE LET t == RigMany(self, Tail(idxs), pre, noneCheck, connect)
                 IN [ev |-> h.ev \o t.ev, err |-> t.err,
                     outs |-> <<h>> \o t.outs]

\* RootRigger ------------------------------------------------------------
RootTemplates(self) ==
    << get_root_control_name(self.armature_object_name),
       get_default_control_name(self.armature_object_name),
       get_pole_target_control_name(self.armature_object_name),
       get_default_ik_control_name(self.armature_object_name) >>

queue_link_controls_to_collection(self) ==
    [i \in 1..4 |->
        queue_link_mesh_to_collection(
            self, get_control_mesh_collection_name(self), RootTemplates(self)[i])]

queue_unlink_control_meshes_to_collection(self) ==
    [i \in 1..4 |->
        queue_unlink_mesh_from_collection(self, None, RootTemplates(self)[i])]

RootRig(self) ==
    LET nm == BoneName(self)
        before ==
            << MeshAct(self, "add_control_mesh_templates", None),
               Step("armature_add"),
               AddBone(OwnBone(self), nm),
               ControlAct(self, "create_bone_groups", None),
               ControlAct(self, "create_collections", None) >>
        kids == RigMany(self, Indexes(Len(self.node.kids)), NoPre,
                        FALSE, FALSE)
        after ==
            << queue_parent_object_to_rig(self, nm),
               ControlAct(self, "attach_root_shape", nm),
               MeshAct(self, "hide_template_meshes", None),
               queue_add_bone_to_group(self, "DEFAULT", nm),
               queue_add_bone_to_layers(
                   self, <<MAYORS_LAYER_INDEX, CONTROL_LAYER_INDEX,
                           GLOBAL_LAYER_INDEX>>, nm),
               queue_unlink_mesh_from_collection(self, None, nm),
               queue_link_mesh_to_collection(
                   self, get_control_mesh_collection_name(self), nm) >>
            \o queue_link_controls_to_collection(self)
            \o queue_unlink_control_meshes_to_collection(self)
    IN IF kids.err # NoErr THEN Raised(self, before \o kids.ev, kids.err)
       ELSE Done(self, before \o kids.ev \o after, OwnBone(self), nm)

\* AccessoryRigger -------------------------------------------------------
AccessoryRig(self) ==
    LET own ==
            << queue_link_mesh_to_collection(
                   self, get_mesh_object_collection_name(self), BoneName(self)),
               queue_unlink_mesh_from_collection(self, None, BoneName(self)) >>
        kids == AccessoryChildren(self, 1)
    IN IF kids.err # NoErr THEN Raised(self, own \o kids.ev, kids.err)
       ELSE Done(self, own \o kids.ev, NoBone, None)

\* the children of an accessory rigged as plain bones
RigAccessoryChildrenAsDefault(self, i) ==
    IF i > Len(self.node.kids) THEN [ev |-> <<>>, err |-> NoErr]
    ELSE LET r == NewRigger(self.node.kids[i], Append(self.path, i), TRUE,
                            self, "DefaultRigger", TRUE)
             h == Rig(r)
             t == AccessoryChildren(self, i + 1)
         IN IF h.err # NoErr
            THEN [ev |-> <<Construct(r)>> \o h.ev, err |-> h.err]
            ELSE [ev |-> <<Construct(r)>> \o h.ev \o t.ev, err |-> t.err]

\* for child_object in children: AccessoryRigger(child_object, self).rig()
RigAccessoryChildren(self, i) ==
    IF i > Len(self.node.kids) THEN [ev |-> <<>>, err |-> NoErr]
    ELSE LET r == NewRigger(self.node.kids[i], Append(self.path, i), TRUE,
                            self, "AccessoryRigger", FALSE)
             h == Rig(r)
             t == AccessoryChildren(self, i + 1)
         IN IF h.err # NoErr
            THEN [ev |-> <<Construct(r)>> \o h.ev, err |-> h.err]
            ELSE [ev |-> <<Construct(r)>> \o h.ev \o t.ev, err |-> t.err]

\* DefaultRigger ---------------------------------------------------------
\* DefaultRigger.queue; attach is the step queue_attach_default_shape
\* resolves to for the class of self
DefaultQueue(self, attach) ==
    << queue_parent_object_to_rig(self, BoneName(self)),
       attach,
       queue_add_bone_to_group(self, "DEFAULT", BoneName(self)),
       queue_add_bone_to_layers(
           self, <<GLOBAL_LAYER_INDEX, MINORS_LAYER_INDEX>>, BoneName(self)),
       queue_link_mesh_to_collection(
           self, get_mesh_object_collection_name(self), BoneName(self)),
       queue_unlink_mesh_from_collection(self, None, BoneName(self)) >>

queue_attach_default_shape(self) ==
    ControlAct(self, "attach_ring_shape", BoneName(self))

\* a default rigger that appends its own actions before it rigs its children
DefaultRigQueuesFirst(self) ==
    LET bone == <<AddBone(OwnBone(self), BoneName(self))>>
        n == Len(self.node.kids)
        kids == RigMany(self, Indexes(n), NoPre, TRUE, n = 1)
        q == DefaultQueue(self, queue_attach_default_shape(self))
    IN IF kids.err # NoErr THEN Raised(self, bone \o q \o kids.ev, kids.err)
       ELSE Done(self, bone \o q \o kids.ev, OwnBone(self), BoneName(self))

queue_hide_current_bone(self) ==
    ControlAct(self, "hide_current_bone", BoneName(self))

DefaultRig(self) ==
    LET bone == <<AddBone(OwnBone(self), BoneName(self))>>
        n == Len(self.node.kids)
        kids == RigMany(self, Indexes(n), NoPre, TRUE, n = 1)
        q == DefaultQueue(self, queue_attach_default_shape(self))
    IN IF kids.err # NoErr THEN Raised(self, bone \o kids.ev, kids.err)
       ELSE Done(self, bone \o kids.ev \o q, OwnBone(self), BoneName(self))

\* verify_chain of the riggers that need ONE child of joint type jt
verify_chain(self, jt) ==
    IF Len(self.node.kids) = 0
    THEN Err("RiggerException", "verify_chain: requires a child", self.cls)
    ELSE IF Len(ChildrenOfType(self, jt)) # 1
    THEN Err("RiggerException", "verify_chain: requires ONE child of type",
             self.cls)
    ELSE NoErr

\* the child of the required type first (connected, its bone never tested
\* for None), then the other children (not connected, bone tested)
MandatoryThenOthers(self, jt, pre) ==
    LET m == RigOne(self, ChildrenOfType(self, jt)[1], pre, FALSE, TRUE,
                    OwnBone(self))
        o == RigMany(self, ChildrenNotOfType(self, jt), NoPre, TRUE, FALSE)
    IN IF m.err # NoErr THEN [ev |-> m.ev, err |-> m.err]
       ELSE [ev |-> m.ev \o o.ev, err |-> o.err]

\* PoleTargetRigger / IkControlRigger -------------------------------------
PoleControlName(self) == BoneName(self) \o "_POLE_CTRL"

IkControlName(self) == BoneName(self) \o "_IK_CTRL"

queue_attach_pole_target_shape(self) ==
    ControlAct(self, "attach_pole_target_shape", PoleControlName(self))

\* the control bone parented to the absolute root whatever is asked
create_control_bone_absolute(self, absolute) ==
    << AddBoneAt(OwnControl(self), IkControlName(self),
                 IF self.place_on_head THEN "head" ELSE "tail"),
       SetParent(OwnControl(self),
                 BoneId(self.absolute_root_rigger, "bone"), FALSE) >>

\* the control bone placed on the tail whatever place_on_head says
create_control_bone_on_tail(self, absolute) ==
    << AddBoneAt(OwnControl(self), IkControlName(self), "tail"),
       SetParent(OwnControl(self),
                 BoneId(IF absolute THEN self.absolute_root_rigger
                        ELSE self.local_control_root, "bone"),
                 FALSE) >>

\* IkControlRigger.create_control_bone(absolute)
create_control_bone(self, absolute) ==
    << AddBoneAt(OwnControl(self), IkControlName(self),
                 IF self.place_on_head THEN "head" ELSE "tail"),
       SetParent(OwnControl(self),
                 BoneId(IF absolute THEN self.absolute_root_rigger
                        ELSE self.local_control_root, "bone"),
                 FALSE) >>

\* the angles of the right side exchanged
get_angle_orient_exchanged(self) ==
    IF self.pole_target_offset = 1
    THEN [ok |-> TRUE,
          angle |-> IF self.node.orient = "R" THEN 75 ELSE 0]
    ELSE IF self.pole_target_offset = -1
    THEN [ok |-> TRUE,
          angle |-> IF self.node.orient = "R" THEN -105 ELSE 180]
    ELSE [ok |-> FALSE, angle |-> 0]

\* the orientation table read in its first row for either offset sign
get_angle_orient_first_row(self) ==
    IF self.pole_target_offset \in {1, -1}
    THEN [ok |-> TRUE,
          angle |-> IF self.node.orient = "R" THEN -105 ELSE 0]
    ELSE [ok |-> FALSE, angle |-> 0]

\* IkControlRigger.get_angle_orient: the angle, or ok = FALSE for ValueError
get_angle_orient(self) ==
    IF self.pole_target_offset = 1
    THEN [ok |-> TRUE,
          angle |-> IF self.node.orient = "R" THEN -105 ELSE 0]
    ELSE IF self.pole_target_offset = -1
    THEN [ok |-> TRUE,
          angle |-> IF self.node.orient = "R" THEN 75 ELSE 180]
    ELSE [ok |-> FALSE, angle |-> 0]

\* an IK constraint that always spans two bones
queue_create_ik_constraint_of_two(self, angle, chain_length) ==
    LET a == IF self.angle_orient THEN get_angle_orient(self)
             ELSE [ok |-> TRUE, angle |-> angle]
    IN [ok |-> a.ok,
        ev |-> << Queue("control_creation",
                     [Act("create_ik_constraint", self.path) EXCEPT
                         !.bone = IF self.affect_parent
                                  THEN self.parentBoneName
                                  ELSE BoneName(self),
                         !.target = IkControlName(self),
                         !.arm = self.armature_object_name,
                         !.pole = self.pole_target_bone,
                         !.angle = a.angle,
                         !.n = 2]) >>]

\* the IK constraint put on the rigger's own bone whatever affect_parent says
queue_create_ik_constraint_on_own_bone(self, angle, chain_length) ==
    LET a == IF self.angle_orient THEN get_angle_orient(self)
             ELSE [ok |-> TRUE, angle |-> angle]
    IN [ok |-> a.ok,
        ev |-> << Queue("control_creation",
                     [Act("create_ik_constraint", self.path) EXCEPT
                         !.bone = BoneName(self),
                         !.target = IkControlName(self),
                         !.arm = self.armature_object_name,
                         !.pole = self.pole_target_bone,
                         !.angle = a.angle,
                         !.n = chain_length]) >>]

\* IkControlRigger.queue_create_ik_constraint(angle, chain_length)
queue_create_ik_constraint(self, angle, chain_length) ==
    LET a == IF self.angle_orient THEN get_angle_orient(self)
             ELSE [ok |-> TRUE, angle |-> angle]
    IN [ok |-> a.ok,
        ev |-> << Queue("control_creation",
                     [Act("create_ik_constraint", self.path) EXCEPT
                         !.bone = IF self.affect_parent
                                  THEN self.parentBoneName
                                  ELSE BoneName(self),
                         !.target = IkControlName(self),
                         !.arm = self.armature_object_name,
                         !.pole = self.pole_target_bone,
                         !.angle = a.angle,
                         !.n = chain_length]) >>]

\* ShoulderRigger --------------------------------------------------------
ShoulderControlName(self) == BoneName(self) \o "_CTRL"

ShoulderQueue(self) ==
    << queue_parent_object_to_rig(self, BoneName(self)),
       [ControlAct(self, "create_shoulder_constraint", BoneName(self))
           EXCEPT !.act.target = ShoulderControlName(self)],
       queue_hide_current_bone(self),
       queue_add_bone_to_group(self, "ARM", ShoulderControlName(self)),
       queue_add_bone_to_layers(
           self, <<GLOBAL_LAYER_INDEX, ARM_LAYER_INDEX>>, BoneName(self)),
       queue_add_bone_to_layers(
           self, <<GLOBAL_LAYER_INDEX, MAYORS_LAYER_INDEX,
                   CONTROL_LAYER_INDEX, ARM_LAYER_INDEX>>,
           ShoulderControlName(self)),
       queue_link_mesh_to_collection(
           self, get_mesh_object_collection_name(self), BoneName(self)),
       queue_unlink_mesh_from_collection(self, None, BoneName(self)) >>

ShoulderRig(self) ==
    LET v == verify_chain(self, "ARM_HUMERUS")
        bone == <<AddBone(OwnBone(self), BoneName(self))>>
        kids == MandatoryThenOthers(self, "ARM_HUMERUS", NoPre)
        ctrl == << AddBoneAt(OwnControl(self), ShoulderControlName(self),
                             "head_offset"),
                   SetParent(OwnControl(self),
                             BoneId(self.parentPath, "bone"), FALSE) >>
        me == [self EXCEPT !.control_bone = OwnControl(self),
                           !.control_name = ShoulderControlName(self)]
    IN IF v # NoErr THEN Raised(self, <<>>, v)
       ELSE IF kids.err # NoErr THEN Raised(self, bone \o kids.ev, kids.err)
       ELSE Done(me, bone \o kids.ev \o ctrl \o ShoulderQueue(self),
                 OwnBone(self), BoneName(self))

\* HumerusRigger ---------------------------------------------------------
HumerusRig(self) ==
    LET v == verify_chain(self, "ARM_RADIUS")
        bone == <<AddBone(OwnBone(self), BoneName(self))>>
        kids == MandatoryThenOthers(self, "ARM_RADIUS", NoPre)
        q == << queue_parent_object_to_rig(self, BoneName(self)),
                queue_add_bone_to_group(self, "ARM", BoneName(self)),
                queue_add_bone_to_layers(
                    self, <<GLOBAL_LAYER_INDEX, MAYORS_LAYER_INDEX,
                            ARM_LAYER_INDEX>>, BoneName(self)),
                queue_link_mesh_to_collection(
                    self, get_mesh_object_collection_name(self),
                    BoneName(self)),
                queue_unlink_mesh_from_collection(self, None, BoneName(self)) >>
    IN IF v # NoErr THEN Raised(self, <<>>, v)
       ELSE IF kids.err # NoErr THEN Raised(self, bone \o kids.ev, kids.err)
       ELSE Done(self, bone \o kids.ev \o q, OwnBone(self), BoneName(self))

\* ElbowRigger: a dead end, its object's children are never visited -------
\* an elbow that goes on to its children as any bone does
ElbowRigDescends(self) == DefaultRig(self)

ElbowRig(self) ==
    LET me == [self EXCEPT !.offset_sign = -1,
                           !.control_bone = OwnControl(self),
                           !.control_name = PoleControlName(self)]
        ev == << AddBone(OwnBone(self), BoneName(self)),
                 AddBoneAt(OwnControl(self), PoleControlName(self),
                           "head_offset"),
                 SetParent(OwnControl(self),
                           BoneId(self.local_control_root, "bone"), FALSE),
                 queue_hide_current_bone(self),
                 queue_attach_pole_target_shape(self),
                 queue_add_bone_to_group(self, "ARM", BoneName(self)),
                 queue_add_bone_to_group(self, "ARM", PoleControlName(self)),
                 queue_add_bone_to_layers(
                     self, <<GLOBAL_LAYER_INDEX, ARM_LAYER_INDEX>>,
                     BoneName(self)),
                 queue_add_bone_to_layers(
                     self, <<GLOBAL_LAYER_INDEX, CONTROL_LAYER_INDEX,
                             MAYORS_LAYER_INDEX, ARM_LAYER_INDEX>>,
                     PoleControlName(self)),
                 queue_link_mesh_to_collection(
                     self, get_mesh_object_collection_name(self),
                     BoneName(self)),
                 queue_unlink_mesh_from_collection(self, None, BoneName(self)) >>
    IN Done(me, ev, OwnBone(self), BoneName(self))

\* HandRootRigger: DefaultRigger.rig with HandRootRigger.queue ------------
HandRootRig(self) ==
    LET bone == <<AddBone(OwnBone(self), BoneName(self))>>
        n == Len(self.node.kids)
        kids == RigMany(self, Indexes(n), NoPre, TRUE, n = 1)
        me == [self EXCEPT !.control_bone = OwnControl(self),
                           !.control_name = IkControlName(self)]
        q1 == << queue_parent_object_to_rig(self, BoneName(self)),
                 queue_attach_default_shape(self) >>
              \o create_control_bone(self, FALSE)
        ik == queue_create_ik_constraint(self, 180, 2)
        q2 == << [ControlAct(self, "add_rotation_constraint", BoneName(self))
                     EXCEPT !.act.target = IkControlName(self)],
                 queue_add_bone_to_group(self, "HAND", BoneName(self)),
                 queue_add_bone_to_group(self, "ARM", IkControlName(self)),
                 queue_add_bone_to_layers(
                     self, <<GLOBAL_LAYER_INDEX, HAND_LAYER_INDEX,
                             ARM_LAYER_INDEX>>, BoneName(self)),
                 queue_add_bone_to_layers(
                     self, <<GLOBAL_LAYER_INDEX, CONTROL_LAYER_INDEX,
                             MAYORS_LAYER_INDEX, ARM_LAYER_INDEX>>,
                     IkControlName(self)),
                 queue_link_mesh_to_collection(
                     self, get_mesh_object_collection_name(self),
                     BoneName(self)),
                 queue_unlink_mesh_from_collection(self, None, BoneName(self)) >>
    IN IF kids.err # NoErr THEN Raised(self, bone \o kids.ev, kids.err)
       ELSE IF ~ik.ok
       THEN Raised(self, bone \o kids.ev \o q1,
                   Err("ValueError", "get_angle_orient", self.cls))
       ELSE Done(me, bone \o kids.ev \o q1 \o ik.ev \o q2,
                 OwnBone(self), BoneName(self))

\* the first rigger of class cls among the outcomes of a loop, if any
LastOfClassFromHead(outs, cls, dflt) ==
    IF \E k \in 1..Len(outs) : outs[k].cls = cls
    THEN outs[CHOOSE k \in 1..Len(outs) :
                 /\ outs[k].cls = cls
                 /\ \A j \in 1..(k - 1) : outs[j].cls # cls]
    ELSE dflt

\* the last rigger of class cls among the outcomes of a loop, if any
RECURSIVE LastOfClass(_, _, _)
LastOfClass(outs, cls, dflt) ==
    IF outs = <<>> THEN dflt
    ELSE IF outs[Len(outs)].cls = cls THEN outs[Len(outs)]
    ELSE LastOfClass(SubSeq(outs, 1, Len(outs) - 1), cls, dflt)

\* RadiusRigger: the other children first, then the hand -----------------
RadiusRig(self) ==
    LET v == verify_chain(self, "HAND_ROOT")
        bone == <<AddBone(OwnBone(self), BoneName(self))>>
        o == RigMany(self, ChildrenNotOfType(self, "HAND_ROOT"), NoPre,
                     TRUE, FALSE)
        elbow == LastOfClass(o.outs, "ElbowRigger",
                             [control_name |-> None, offset_sign |-> 0])
        pre == [NoPre EXCEPT !.setPole = TRUE, !.pole = elbow.control_name,
                             !.poleOffset = elbow.offset_sign]
        m == RigOne(self, ChildrenOfType(self, "HAND_ROOT")[1], pre, FALSE,
                    TRUE, OwnBone(self))
        q == << queue_parent_object_to_rig(self, BoneName(self)),
                queue_add_bone_to_group(self, "ARM", BoneName(self)),
                queue_add_bone_to_layers(
                    self, <<GLOBAL_LAYER_INDEX, ARM_LAYER_INDEX>>,
                    BoneName(self)),
                queue_link_mesh_to_collection(
                    self, get_mesh_object_collection_name(self),
                    BoneName(self)),
                queue_unlink_mesh_from_collection(self, None, BoneName(self)) >>
    IN IF v # NoErr THEN Raised(self, <<>>, v)
       ELSE IF o.err # NoErr THEN Raised(self, bone \o o.ev, o.err)
       ELSE IF m.err # NoErr THEN Raised(self, bone \o o.ev \o m.ev, m.err)
       ELSE Done(self, bone \o o.ev \o m.ev \o q, OwnBone(self),
                 BoneName(self))

\* riggers that hand a control bone down to children of their own kind -----
\* (isinstance tests of the child rigger)
FingerRiggerBase ==
    {"FingerSectionRigger", "FingerRootRigger", "ToeSectionRigger",
     "ToeRootRigger"}

SpineRiggerBase == {"SpineSectionRigger", "SpineRootRigger"}

NeckRiggerBase == {"NeckSectionRigger", "NeckRootRigger", "HeadRigger"}

\* outcomes of a loop whose rigger is of one of the classes fam
RECURSIVE OfFamily(_, _)
OfFamily(outs, fam) ==
    IF outs = <<>> THEN <<>>
    ELSE (IF Head(outs).cls \in fam THEN <<Head(outs)>> ELSE <<>>)
         \o OfFamily(Tail(outs), fam)

\* several children: the first child of the family is connected afterwards,
\* however many there are
FamilyChildrenConnectsFirst(self, fam, control_bone, control_name) ==
    LET n == Len(self.node.kids)
        pre == [NoPre EXCEPT !.fam = fam, !.control_bone = control_bone,
                             !.control_name = control_name]
        kids == RigMany(self, Indexes(n), pre, TRUE, n = 1)
        same == OfFamily(kids.outs, fam)
    IN IF kids.err # NoErr \/ n < 2 \/ Len(same) < 1
       THEN [ev |-> kids.ev, err |-> kids.err]
       ELSE [ev |-> kids.ev \o <<SetConnect(same[1].bone, TRUE)>>,
             err |-> NoErr]

\* the three cases of the finger, spine and neck riggers: no child, one
\* child (connected), several children (not connected, except that a single
\* child of the family is connected afterwards); children of the family
\* receive the control bone before they rig
FamilyChildren(self, fam, control_bone, control_name) ==
    LET n == Len(self.node.kids)
        pre == [NoPre EXCEPT !.fam = fam, !.control_bone = control_bone,
                             !.control_name = control_name]
        kids == RigMany(self, Indexes(n), pre, TRUE, n = 1)
        same == OfFamily(kids.outs, fam)
    IN IF kids.err # NoErr \/ n < 2 \/ Len(same) # 1
       THEN [ev |-> kids.ev, err |-> kids.err]
       ELSE [ev |-> kids.ev \o <<SetConnect(same[1].bone, TRUE)>>,
             err |-> NoErr]

\* the rotation constraint put on the control, copying the bone
FingerRotationConstraintOnControl(self, control_bone, control_name) ==
    IF control_bone = NoBone THEN <<>>
    ELSE << [ControlAct(self, "create_rotation_constraint", control_name)
                EXCEPT !.act.target = BoneName(self)] >>

\* FingerSectionRigger.queue_create_rotation_constraint
FingerRotationConstraint(self, control_bone, control_name) ==
    IF control_bone = NoBone THEN <<>>
    ELSE << [ControlAct(self, "create_rotation_constraint", BoneName(self))
                EXCEPT !.act.target = control_name] >>

\* FingerSectionRigger and ToeSectionRigger ------------------------------
FingerSectionRig(self, group, limbLayer, partLayer) ==
    LET bone == <<AddBone(OwnBone(self), BoneName(self))>>
        kids == FamilyChildren(self, FingerRiggerBase, self.control_bone,
                               self.control_name)
        q == << queue_parent_object_to_rig(self, BoneName(self)) >>
             \o FingerRotationConstraint(self, self.control_bone,
                                         self.control_name)
             \o << queue_add_bone_to_group(self, group, BoneName(self)),
                   queue_add_bone_to_layers(
                       self, <<GLOBAL_LAYER_INDEX, limbLayer, partLayer,
                               MINORS_LAYER_INDEX>>, BoneName(self)),
                   queue_link_mesh_to_collection(
                       self, get_mesh_object_collection_name(self),
                       BoneName(self)),
                   queue_unlink_mesh_from_collection(self, None,
                                                     BoneName(self)) >>
    IN IF kids.err # NoErr THEN Raised(self, bone \o kids.ev, kids.err)
       ELSE Done(self, bone \o kids.ev \o q, OwnBone(self), BoneName(self))

\* FingerRootRigger and ToeRootRigger ------------------------------------
FingerRootRig(self, group, limbLayer, partLayer) ==
    LET cn == BoneName(self) \o "_CTRL"
        me == [self EXCEPT !.control_bone = OwnControl(self),
                           !.control_name = cn]
        bone == << AddBone(OwnBone(self), BoneName(self)),
                   AddBoneAt(OwnControl(self), cn, "head"),
                   SetParent(OwnControl(self),
                             BoneId(self.parentPath, "bone"), FALSE) >>
        kids == FamilyChildren(me, FingerRiggerBase, OwnControl(self), cn)
        q == << queue_parent_object_to_rig(self, BoneName(self)),
                ControlAct(self, "attach_shape_to_control", cn) >>
             \o FingerRotationConstraint(self, OwnControl(self), cn)
             \o << queue_add_bone_to_group(self, group, cn),
                   queue_add_bone_to_group(self, group, BoneName(self)),
                   queue_add_bone_to_layers(
                       self, <<GLOBAL_LAYER_INDEX, limbLayer, partLayer,
                               MINORS_LAYER_INDEX>>, BoneName(self)),
                   queue_add_bone_to_layers(
                       self, <<GLOBAL_LAYER_INDEX, limbLayer, partLayer,
                               MINORS_LAYER_INDEX, CONTROL_LAYER_INDEX>>, cn),
                   queue_link_mesh_to_collection(
                       self, get_mesh_object_collection_name(self),
                       BoneName(self)),
                   queue_unlink_mesh_from_collection(self, None,
                                                     BoneName(self)) >>
    IN IF kids.err # NoErr THEN Raised(me, bone \o kids.ev, kids.err)
       ELSE Done(me, bone \o kids.ev \o q, OwnBone(self), BoneName(self))

\* ThighRigger -----------------------------------------------------------
ThighRig(self) ==
    LET v == verify_chain(self, "LEG_SHIN")
        bone == <<AddBone(OwnBone(self), BoneName(self))>>
        kids == MandatoryThenOthers(self, "LEG_SHIN", NoPre)
        q == << queue_parent_object_to_rig(self, BoneName(self)),
                queue_add_bone_to_group(self, "LEG", BoneName(self)),
                queue_add_bone_to_layers(
                    self, <<GLOBAL_LAYER_INDEX, MAYORS_LAYER_INDEX,
                            LEG_LAYER_INDEX>>, BoneName(self)),
                queue_link_mesh_to_collection(
                    self, get_mesh_object_collection_name(self),
                    BoneName(self)),
                queue_unlink_mesh_from_collection(self, None, BoneName(self)) >>
    IN IF v # NoErr THEN Raised(self, <<>>, v)
       ELSE IF kids.err # NoErr THEN Raised(self, bone \o kids.ev, kids.err)
       ELSE Done(self, bone \o kids.ev \o q, OwnBone(self), BoneName(self))

\* a knee whose pole control is parented as the pole control of an elbow is
KneeRigLocalPole(self) ==
    LET me == [self EXCEPT !.control_bone = OwnControl(self),
                           !.control_name = PoleControlName(self)]
        ev == << AddBone(OwnBone(self), BoneName(self)),
                 AddBoneAt(OwnControl(self), PoleControlName(self),
                           "head_offset"),
                 SetParent(OwnControl(self),
                           BoneId(self.local_control_root, "bone"), FALSE),
                 queue_hide_current_bone(self),
                 queue_attach_pole_target_shape(self),
                 queue_add_bone_to_group(self, "LEG", BoneName(self)),
                 queue_add_bone_to_group(self, "LEG", PoleControlName(self)),
                 queue_add_bone_to_layers(
                     self, <<GLOBAL_LAYER_INDEX, LEG_LAYER_INDEX>>,
                     BoneName(self)),
                 queue_add_bone_to_layers(
                     self, <<GLOBAL_LAYER_INDEX, MAYORS_LAYER_INDEX,
                             CONTROL_LAYER_INDEX, LEG_LAYER_INDEX>>,
                     PoleControlName(self)),
                 queue_link_mesh_to_collection(
                     self, get_mesh_object_collection_name(self),
                     BoneName(self)),
                 queue_unlink_mesh_from_collection(self, None, BoneName(self)) >>
    IN Done(me, ev, OwnBone(self), BoneName(self))

\* KneeRigger: a dead end, its object's children are never visited --------
KneeRig(self) ==
    LET me == [self EXCEPT !.control_bone = OwnControl(self),
                           !.control_name = PoleControlName(self)]
        ev == << AddBone(OwnBone(self), BoneName(self)),
                 AddBoneAt(OwnControl(self), PoleControlName(self),
                           "head_offset"),
                 SetParent(OwnControl(self),
                           BoneId(self.absolute_root_rigger, "bone"), FALSE),
                 queue_hide_current_bone(self),
                 queue_attach_pole_target_shape(self),
                 queue_add_bone_to_group(self, "LEG", BoneName(self)),
                 queue_add_bone_to_group(self, "LEG", PoleControlName(self)),
                 queue_add_bone_to_layers(
                     self, <<GLOBAL_LAYER_INDEX, LEG_LAYER_INDEX>>,
                     BoneName(self)),
                 queue_add_bone_to_layers(
                     self, <<GLOBAL_LAYER_INDEX, MAYORS_LAYER_INDEX,
                             CONTROL_LAYER_INDEX, LEG_LAYER_INDEX>>,
                     PoleControlName(self)),
                 queue_link_mesh_to_collection(
                     self, get_mesh_object_collection_name(self),
                     BoneName(self)),
                 queue_unlink_mesh_from_collection(self, None, BoneName(self)) >>
    IN Done(me, ev, OwnBone(self), BoneName(self))

\* FeetRigger: DefaultRigger.rig with FeetRigger.queue --------------------
FeetRig(self) ==
    LET bone == <<AddBone(OwnBone(self), BoneName(self))>>
        n == Len(self.node.kids)
        kids == RigMany(self, Indexes(n), NoPre, TRUE, n = 1)
        me == [self EXCEPT !.control_bone = OwnControl(self),
                           !.control_name = IkControlName(self)]
        ik == queue_create_ik_constraint(self, 0, 2)
        q == << queue_parent_object_to_rig(self, BoneName(self)),
                queue_attach_default_shape(self) >>
             \o create_control_bone(self, TRUE)
             \o << SetParent(OwnControl(self),
                             BoneId(self.absolute_root_rigger, "bone"),
                             FALSE) >>
             \o ik.ev
             \o << [ControlAct(self, "create_copy_location_constraint",
                               BoneName(self))
                       EXCEPT !.act.target = self.parentBoneName],
                   [ControlAct(self, "add_rotation_constraint", BoneName(self))
                       EXCEPT !.act.target = IkControlName(self)],
                   queue_add_bone_to_group(self, "FEET", BoneName(self)),
                   queue_add_bone_to_group(self, "LEG", IkControlName(self)),
                   queue_add_bone_to_layers(
                       self, <<GLOBAL_LAYER_INDEX, LEG_LAYER_INDEX,
                               FEET_LAYER_INDEX>>, BoneName(self)),
                   queue_add_bone_to_layers(
                       self, <<GLOBAL_LAYER_INDEX, MAYORS_LAYER_INDEX,
                               LEG_LAYER_INDEX, CONTROL_LAYER_INDEX>>,
                       IkControlName(self)),
                   queue_link_mesh_to_collection(
                       self, get_mesh_object_collection_name(self),
                       BoneName(self)),
                   queue_unlink_mesh_from_collection(self, None,
                                                     BoneName(self)) >>
    IN IF kids.err # NoErr THEN Raised(self, bone \o kids.ev, kids.err)
       ELSE IF ~ik.ok
       THEN Raised(self, bone \o kids.ev,
                   Err("ValueError", "get_angle_orient", self.cls))
       ELSE Done(me, bone \o kids.ev \o q, OwnBone(self), BoneName(self))

\* ShinRigger: the other children first, then the foot, whose bone is
\* parented to the bone of the absolute root -----------------------------
ShinRig(self) ==
    LET v == verify_chain(self, "FOOT_ROOT")
        bone == <<AddBone(OwnBone(self), BoneName(self))>>
        o == RigMany(self, ChildrenNotOfType(self, "FOOT_ROOT"), NoPre,
                     TRUE, FALSE)
        knee == LastOfClass(o.outs, "KneeRigger",
                            [control_name |-> None, offset_sign |-> 0])
        pre == [NoPre EXCEPT !.setPole = TRUE, !.pole = knee.control_name,
                             !.poleOffset = knee.offset_sign]
        m == RigOne(self, ChildrenOfType(self, "FOOT_ROOT")[1], pre, FALSE,
                    FALSE, BoneId(self.absolute_root_rigger, "bone"))
        q == << queue_parent_object_to_rig(self, BoneName(self)),
                queue_add_bone_to_group(self, "LEG", BoneName(self)),
                queue_add_bone_to_layers(
                    self, <<GLOBAL_LAYER_INDEX, LEG_LAYER_INDEX>>,
                    BoneName(self)),
                queue_link_mesh_to_collection(
                    self, get_mesh_object_collection_name(self),
                    BoneName(self)),
                queue_unlink_mesh_from_collection(self, None, BoneName(self)) >>
    IN IF v # NoErr THEN Raised(self, <<>>, v)
       ELSE IF o.err # NoErr THEN Raised(self, bone \o o.ev, o.err)
       ELSE IF m.err # NoErr THEN Raised(self, bone \o o.ev \o m.ev, m.err)
       ELSE Done(self, bone \o o.ev \o m.ev \o q, OwnBone(self),
                 BoneName(self))

\* the rotation constraint at the default influence whatever was asked
RotationConstraintAtDefault(self, control_bone, control_name, influence) ==
    IF control_bone = NoBone THEN <<>>
    ELSE << [ControlAct(self, "create_rotation_constraint", BoneName(self))
                EXCEPT !.act.target = control_name, !.act.n = 100] >>

\* SpineRiggerBase / NeckRiggerBase queue_create_rotation_constraint; the
\* influence factor is kept in hundredths
RotationConstraint(self, control_bone, control_name, influence) ==
    IF control_bone = NoBone THEN <<>>
    ELSE << [ControlAct(self, "create_rotation_constraint", BoneName(self))
                EXCEPT !.act.target = control_name, !.act.n = influence] >>

\* SpineSectionRigger and NeckSectionRigger ------------------------------
SectionRig(self, fam, group, layers, influence) ==
    LET bone == <<AddBone(OwnBone(self), BoneName(self))>>
        kids == FamilyChildren(self, fam, self.control_bone,
                               self.control_name)
        q == << queue_parent_object_to_rig(self, BoneName(self)),
                queue_attach_default_shape(self) >>
             \o RotationConstraint(self, self.control_bone,
                                   self.control_name, influence)
             \o << queue_add_bone_to_group(self, group, BoneName(self)),
                   queue_add_bone_to_layers(self, layers, BoneName(self)),
                   queue_link_mesh_to_collection(
                       self, get_mesh_object_collection_name(self),
                       BoneName(self)),
                   queue_unlink_mesh_from_collection(self, None,
                                                     BoneName(self)) >>
    IN IF kids.err # NoErr THEN Raised(self, bone \o kids.ev, kids.err)
       ELSE Done(self, bone \o kids.ev \o q, OwnBone(self), BoneName(self))

\* SpineRootRigger.queue / NeckRootRigger.queue: shape is the name of the
\* proportion control mesh
RootSectionQueue(self, shape, group, partLayer) ==
    LET cn == BoneName(self) \o "_CTRL"
    IN << [MeshAct(self, "create_proportion_control_shape", None)
              EXCEPT !.act.mesh = shape],
          queue_link_mesh_to_collection(
              self, get_control_mesh_collection_name(self), shape),
          queue_unlink_mesh_from_collection(self, None, shape),
          [MeshAct(self, "hide_template_mesh", None)
              EXCEPT !.act.mesh = shape],
          [ControlAct(self, "attach_shape_to_control", cn)
              EXCEPT !.act.mesh = shape],
          queue_parent_object_to_rig(self, BoneName(self)),
          queue_hide_current_bone(self) >>
       \o RotationConstraint(self, OwnControl(self), cn, 100)
       \o << [ControlAct(self, "create_location_constraint", BoneName(self))
                 EXCEPT !.act.target = cn],
             queue_add_bone_to_group(self, group, BoneName(self)),
             queue_add_bone_to_group(self, group, cn),
             queue_add_bone_to_layers(
                 self, <<GLOBAL_LAYER_INDEX, partLayer>>, BoneName(self)),
             queue_add_bone_to_layers(
                 self,
                 IF group = "SPINE"
                 THEN <<GLOBAL_LAYER_INDEX, MAYORS_LAYER_INDEX,
                        CONTROL_LAYER_INDEX, partLayer>>
                 ELSE <<GLOBAL_LAYER_INDEX, partLayer, MAYORS_LAYER_INDEX,
                        CONTROL_LAYER_INDEX>>, cn),
             queue_link_mesh_to_collection(
                 self, get_mesh_object_collection_name(self), BoneName(self)),
             queue_unlink_mesh_from_collection(self, None, BoneName(self)) >>

SpineControlShapeName(self) ==
    self.armature_object_name \o "_" \o BoneName(self) \o "_SPINE_CTRL"

NeckControlShapeName(self) ==
    self.armature_object_name \o "_" \o self.node.name \o "_NECK_CTRL"

\* SpineRootRigger: the control bone hangs from the absolute root ---------
SpineRootRig(self) ==
    LET cn == BoneName(self) \o "_CTRL"
        me == [self EXCEPT !.control_bone = OwnControl(self),
                           !.control_name = cn]
        bone == << AddBone(OwnBone(self), BoneName(self)),
                   AddBoneAt(OwnControl(self), cn, "head"),
                   SetParent(OwnControl(self),
                             BoneId(self.absolute_root_rigger, "bone"),
                             FALSE) >>
        kids == FamilyChildren(me, SpineRiggerBase, OwnControl(self), cn)
        q == RootSectionQueue(self, SpineControlShapeName(self), "SPINE",
                              SPINE_LAYER_INDEX)
    IN IF kids.err # NoErr THEN Raised(me, bone \o kids.ev, kids.err)
       ELSE Done(me, bone \o kids.ev \o q, OwnBone(self), BoneName(self))

\* NeckRootRigger: the control bone hangs from the parent's bone ----------
NeckRootRig(self) ==
    LET cn == BoneName(self) \o "_CTRL"
        me == [self EXCEPT !.control_bone = OwnControl(self),
                           !.control_name = cn]
        bone == << AddBone(OwnBone(self), BoneName(self)),
                   AddBoneAt(OwnControl(self), cn, "head"),
                   SetParent(OwnControl(self),
                             BoneId(self.parentPath, "bone"), FALSE) >>
        kids == FamilyChildren(me, NeckRiggerBase, OwnControl(self), cn)
        q == RootSectionQueue(self, NeckControlShapeName(self), "HEAD",
                              HEAD_LAYER_INDEX)
    IN IF kids.err # NoErr THEN Raised(me, bone \o kids.ev, kids.err)
       ELSE Done(me, bone \o kids.ev \o q, OwnBone(self), BoneName(self))

\* HeadRigger: every child alike, none connected, no control handed down --
HeadRig(self) ==
    LET cn == BoneName(self) \o "_CTRL"
        me == [self EXCEPT !.control_bone = OwnControl(self),
                           !.control_name = cn]
        bone == << AddBone(OwnBone(self), BoneName(self)),
                   AddBoneAt(OwnControl(self), cn, "head"),
                   SetParent(OwnControl(self),
                             BoneId(self.parentPath, "bone"), FALSE) >>
        kids == RigMany(me, Indexes(Len(self.node.kids)), NoPre, TRUE, FALSE)
        q == RootSectionQueue(self, NeckControlShapeName(self), "HEAD",
                              HEAD_LAYER_INDEX)
    IN IF kids.err # NoErr THEN Raised(me, bone \o kids.ev, kids.err)
       ELSE Done(me, bone \o kids.ev \o q, OwnBone(self), BoneName(self))

\* ChainRootRigger -------------------------------------------------------
ChainRootRig(self) ==
    LET v == verify_chain(self, "CHAIN_SEGMENT")
        bone == <<AddBone(OwnBone(self), BoneName(self))>>
        kids == MandatoryThenOthers(
                    self, "CHAIN_SEGMENT",
                    [NoPre EXCEPT !.chain = self.chain_length])
        q == << queue_parent_object_to_rig(self, BoneName(self)),
                queue_add_bone_to_group(self, "CHAIN", BoneName(self)),
                queue_add_bone_to_layers(
                    self, <<GLOBAL_LAYER_INDEX, MAYORS_LAYER_INDEX,
                            CHAIN_LAYER_INDEX>>, BoneName(self)),
                queue_link_mesh_to_collection(
                    self, get_mesh_object_collection_name(self),
                    BoneName(self)),
                queue_unlink_mesh_from_collection(self, None, BoneName(self)) >>
    IN IF v # NoErr THEN Raised(self, <<>>, v)
       ELSE IF kids.err # NoErr THEN Raised(self, bone \o kids.ev, kids.err)
       ELSE Done(self, bone \o kids.ev \o q, OwnBone(self), BoneName(self))

\* ChainSegmentRigger.verify_chain: at most one CHAIN_SEGMENT child
\* a segment check that asks for ONE next segment
verify_chain_segment_needs_one(self) ==
    IF Len(ChildrenOfType(self, "CHAIN_SEGMENT")) # 1
    THEN Err("RiggerException", "verify_chain: only supports ONE child of type",
             self.cls)
    ELSE NoErr

verify_chain_segment(self) ==
    IF Len(ChildrenOfType(self, "CHAIN_SEGMENT")) > 1
    THEN Err("RiggerException", "verify_chain: only supports ONE child of type",
             self.cls)
    ELSE NoErr

\* ChainSegmentRigger: the next segment, or else the IK control that ends
\* the chain; then the other children ------------------------------------
ChainSegmentRig(self) ==
    LET v == verify_chain_segment(self)
        bone == <<AddBone(OwnBone(self), BoneName(self))>>
        ends == ChildrenOfType(self, "CHAIN_SEGMENT") = <<>>
        me == IF ends
              THEN [self EXCEPT !.control_bone = OwnControl(self),
                                !.control_name = IkControlName(self)]
              ELSE self
        ik == queue_create_ik_constraint(self, 180, self.chain_length)
        m == IF ends
             THEN [ev |-> create_control_bone(self, FALSE) \o ik.ev,
                   err |-> NoErr]
             ELSE RigOne(self, ChildrenOfType(self, "CHAIN_SEGMENT")[1],
                         [NoPre EXCEPT !.chain = self.chain_length + 1],
                         FALSE, TRUE, OwnBone(self))
        o == RigMany(me, ChildrenNotOfType(self, "CHAIN_SEGMENT"), NoPre,
                     TRUE, FALSE)
        q == << queue_parent_object_to_rig(self, BoneName(self)),
                queue_add_bone_to_group(self, "CHAIN", BoneName(self)),
                queue_add_bone_to_layers(
                    self, <<GLOBAL_LAYER_INDEX, MINORS_LAYER_INDEX,
                            CHAIN_LAYER_INDEX>>, BoneName(self)) >>
             \o (IF ends
                 THEN << queue_add_bone_to_group(self, "CHAIN",
                                                 IkControlName(self)),
                         queue_add_bone_to_layers(
                             self, <<GLOBAL_LAYER_INDEX, MAYORS_LAYER_INDEX,
                                     CONTROL_LAYER_INDEX, CHAIN_LAYER_INDEX>>,
                             IkControlName(self)) >>
                 ELSE <<>>)
             \o << queue_link_mesh_to_collection(
                       self, get_mesh_object_collection_name(self),
                       BoneName(self)),
                   queue_unlink_mesh_from_collection(self, None,
                                                     BoneName(self)) >>
    IN IF v # NoErr THEN Raised(self, <<>>, v)
       ELSE IF m.err # NoErr THEN Raised(self, bone \o m.ev, m.err)
       ELSE IF o.err # NoErr THEN Raised(me, bone \o m.ev \o o.ev, o.err)
       ELSE Done(me, bone \o m.ev \o o.ev \o q, OwnBone(self),
                 BoneName(self))

RigOfClass(self) ==
    CASE self.cls = "RootRigger" -> RootRig(self)
      [] self.cls = "AccessoryRigger" -> AccessoryRig(self)
      [] self.cls = "DefaultRigger" -> DefaultRig(self)
      [] self.cls = "ShoulderRigger" -> ShoulderRig(self)
      [] self.cls = "HumerusRigger" -> HumerusRig(self)
      [] self.cls = "ElbowRigger" -> ElbowRig(self)
      [] self.cls = "HandRootRigger" -> HandRootRig(self)
      [] self.cls = "RadiusRigger" -> RadiusRig(self)
      [] self.cls = "FingerSectionRigger" ->
            FingerSectionRig(self, "HAND", ARM_LAYER_INDEX, HAND_LAYER_INDEX)
      [] self.cls = "FingerRootRigger" ->
            FingerRootRig(self, "HAND", ARM_LAYER_INDEX, HAND_LAYER_INDEX)
      [] self.cls = "ToeSectionRigger" ->
            FingerSectionRig(self, "FEET", LEG_LAYER_INDEX, FEET_LAYER_INDEX)
      [] self.cls = "ToeRootRigger" ->
            FingerRootRig(self, "FEET", LEG_LAYER_INDEX, FEET_LAYER_INDEX)
      [] self.cls = "ThighRigger" -> ThighRig(self)
      [] self.cls = "KneeRigger" -> KneeRig(self)
      [] self.cls = "FeetRigger" -> FeetRig(self)
      [] self.cls = "ShinRigger" -> ShinRig(self)
      [] self.cls = "SpineSectionRigger" ->
            SectionRig(self, SpineRiggerBase, "SPINE",
                       <<GLOBAL_LAYER_INDEX, MAYORS_LAYER_INDEX,
                         SPINE_LAYER_INDEX>>, 50)
      [] self.cls = "SpineRootRigger" -> SpineRootRig(self)
      [] self.cls = "NeckSectionRigger" ->
            SectionRig(self, NeckRiggerBase, "HEAD",
                       <<GLOBAL_LAYER_INDEX, HEAD_LAYER_INDEX>>, 100)
      [] self.cls = "NeckRootRigger" -> NeckRootRig(self)
      [] self.cls = "HeadRigger" -> HeadRig(self)
      [] self.cls = "ChainRootRigger" -> ChainRootRig(self)
      [] self.cls = "ChainSegmentRigger" -> ChainSegmentRig(self)

Invoke(c) ==
    CASE c.op = "rig" -> RigOfClass(c.self)
      [] c.op = "child" ->
            RigChild(c.self, c.i, c.pre, c.noneCheck, c.connect, c.parentBone)
      [] c.op = "children" ->
            RigChildren(c.self, c.idxs, c.pre, c.noneCheck, c.connect)
      [] c.op = "accessory_children" -> RigAccessoryChildren(c.self, c.i)

\* ------------------------------------------------------------------------
\* Boxman trees handed to the rig
\* ------------------------------------------------------------------------
MaxKids == 3

N(jt, kids) == [jt |-> jt, name |-> "", orient |-> "C", kids |-> kids]

Leaf(jt) == N(jt, <<>>)

RECURSIVE PathName(_)
PathName(path) ==
    IF path = <<>> THEN "" ELSE ToString(Head(path)) \o PathName(Tail(path))

\* every object of a tree carries its own name (Blender object names are
\* unique in a file)
RECURSIVE Label(_, _)
Label(n, path) ==
    [n EXCEPT !.name = IF path = <<>> THEN "root" ELSE "n" \o PathName(path),
              !.kids = [i \in 1..Len(n.kids) |->
                            Label(n.kids[i], Append(path, i))]]

AnyType == JointTypes \cup {UnknownJointType}

\* a root with one child, with a chain of two, and with two children
PairTrees ==
    {N("OBJECT_ROOT", <<Leaf(a)>>) : a \in AnyType}
    \cup {N("OBJECT_ROOT", <<N(a, <<Leaf(b)>>)>>) : a \in AnyType, b \in AnyType}
    \cup {N("OBJECT_ROOT", <<Leaf(a), Leaf(b)>>) : a \in AnyType, b \in AnyType}

\* a limb or chain object whose own required descendants are all present
ValidRadius == N("ARM_RADIUS", <<Leaf("ARM_ELBOW"), Leaf("HAND_ROOT")>>)

ValidHumerus == N("ARM_HUMERUS", <<ValidRadius>>)

ValidShin == N("LEG_SHIN", <<Leaf("FOOT_ROOT")>>)

\* the riggers that look for a child of one joint type, the subtree that
\* stands for such a child, and the other children they are tried with
Bystanders == {Leaf("ACCESSORY"), Leaf("DEFAULT")}

ChainCases ==
    [ SHOULDER_ROOT |-> {ValidHumerus} \cup Bystanders,
      ARM_HUMERUS   |-> {ValidRadius} \cup Bystanders,
      ARM_RADIUS    |-> {Leaf("HAND_ROOT"), Leaf("ARM_ELBOW")} \cup Bystanders,
      LEG_THIGH     |-> {ValidShin} \cup Bystanders,
      LEG_SHIN      |-> {Leaf("FOOT_ROOT"), Leaf("LEG_KNEE")} \cup Bystanders,
      CHAIN_ROOT    |-> {Leaf("CHAIN_SEGMENT")} \cup Bystanders,
      CHAIN_SEGMENT |-> {Leaf("CHAIN_SEGMENT"), Leaf("HAND_ROOT")}
                        \cup Bystanders ]

KidSeqs(S) == UNION {[1..n -> S] : n \in 0..MaxKids}

Hosted(jt, kids) ==
    IF jt = "CHAIN_SEGMENT"
    THEN N("OBJECT_ROOT", <<N("CHAIN_ROOT", <<N(jt, kids)>>)>>)
    ELSE N("OBJECT_ROOT", <<N(jt, kids)>>)

ChainTrees ==
    UNION {{Hosted(jt, kids) : kids \in KidSeqs(ChainCases[jt])} :
              jt \in DOMAIN ChainCases}

\* objects the operator can be run on that are no OBJECT_ROOT
NotRootTrees == {Leaf("DEFAULT"), N("SPINE_ROOT", <<Leaf("HEAD")>>)}

\* chains of four below the root made of dead ends and what surrounds them
DeadEndTypes == {"ARM_ELBOW", "LEG_KNEE", "ACCESSORY", "DEFAULT"}

DeadEndTrees ==
    {N("OBJECT_ROOT", <<N(a, <<N(b, <<N(c, <<Leaf(d)>>)>>)>>)>>) :
        a \in DeadEndTypes, b \in DeadEndTypes, c \in DeadEndTypes,
        d \in DeadEndTypes}

\* a rigger that hands its control down, with two children
FamilyTypes ==
    {"FINGER_ROOT", "FINGER_SECTION", "TOE_ROOT", "TOE_SECTION", "SPINE_ROOT",
     "SPINE_SECTION", "NECK_ROOT", "NECK_SECTION", "HEAD"}

FamilyTrees ==
    {N("OBJECT_ROOT", <<N(f, <<Leaf(a), Leaf(b)>>)>>) :
        f \in FamilyTypes, a \in FamilyTypes, b \in FamilyTypes \cup {"DEFAULT"}}

\* a chain root followed by a run of segments, each segment alone or with
\* a plain bone beside the next segment
MaxRun == 3

RECURSIVE SegmentRun(_, _)
SegmentRun(n, beside) ==
    N("CHAIN_SEGMENT",
      (IF beside THEN <<Leaf("DEFAULT")>> ELSE <<>>)
      \o (IF n > 1 THEN <<SegmentRun(n - 1, beside)>> ELSE <<>>))

RunTrees ==
    {N("OBJECT_ROOT", <<N("CHAIN_ROOT", <<SegmentRun(n, beside)>>)>>) :
        n \in 1..MaxRun, beside \in BOOLEAN}

\* properties.orientation of an object
Oriented(n, o) == [n EXCEPT !.orient = o]

\* an arm: shoulder, humerus, radius and hand, with or without an elbow
\* before or after the hand, each of hand and elbow on either side
ArmEnds ==
    {<<Oriented(Leaf("HAND_ROOT"), h)>> : h \in Orientations}
    \cup {<<Oriented(Leaf("ARM_ELBOW"), e), Oriented(Leaf("HAND_ROOT"), h)>> :
             e \in Orientations, h \in Orientations}
    \cup {<<Oriented(Leaf("HAND_ROOT"), h), Oriented(Leaf("ARM_ELBOW"), e)>> :
             e \in Orientations, h \in Orientations}

ArmTrees ==
    {N("OBJECT_ROOT",
       <<N("SHOULDER_ROOT",
           <<N("ARM_HUMERUS", <<N("ARM_RADIUS", ends)>>)>>)>>) :
        ends \in ArmEnds}

\* fingers and toes: a chain of three below the root, and a chain with a
\* second child beside it
FingerTypes ==
    {"FINGER_ROOT", "FINGER_SECTION", "TOE_ROOT", "TOE_SECTION", "DEFAULT"}

FingerTrees ==
    {N("OBJECT_ROOT", <<N(a, <<N(b, <<Leaf(c)>>)>>)>>) :
        a \in FingerTypes, b \in FingerTypes, c \in FingerTypes}
    \cup {N("OBJECT_ROOT", <<N(a, <<N(b, <<Leaf(c)>>), Leaf(d)>>)>>) :
        a \in {"FINGER_ROOT", "TOE_ROOT"},
        b \in {"FINGER_ROOT", "FINGER_SECTION", "DEFAULT"},
        c \in {"FINGER_SECTION", "TOE_SECTION"},
        d \in {"FINGER_SECTION", "DEFAULT"}}

\* properties.name of an object
Named(n, name) == [n EXCEPT !.name = name]

ProxyTypes == {"SPINE_ROOT", "NECK_ROOT", "HEAD"}

\* two objects of one name on the two sides, and an object whose name is
\* that of another followed by the suffix of a control
NamesakeTrees ==
    {Named(N("OBJECT_ROOT",
             <<Named(Oriented(Leaf(a), "L"), "twin"),
               Named(Oriented(Leaf(b), "R"), "twin")>>), "root") :
        a \in ProxyTypes, b \in ProxyTypes}
    \cup {Named(N("OBJECT_ROOT",
                  <<Named(Leaf(a), "twin"),
                    Named(Leaf("DEFAULT"), "twin_CTRL")>>), "root") :
        a \in ProxyTypes \cup {"FINGER_ROOT"}}

\* a forearm with its elbow and hand two levels below the root, under spine
\* objects, plain objects or an accessory
ScopeTrees ==
    {N("OBJECT_ROOT", <<N(a, <<N(b, <<ValidRadius>>)>>)>>) :
        a \in {"SPINE_ROOT", "DEFAULT"},
        b \in {"SPINE_SECTION", "DEFAULT", "ACCESSORY"}}
    \cup
    {N("OBJECT_ROOT",
       <<N("SPINE_ROOT",
           <<N("SPINE_SECTION",
               <<N("LEG_SHIN", <<Leaf("LEG_KNEE"), Leaf("FOOT_ROOT")>>)>>)>>)>>)}

Trees ==
    {Label(t, <<>>) :
        t \in PairTrees \cup ChainTrees \cup DeadEndTrees \cup FamilyTrees
               \cup RunTrees \cup ArmTrees \cup FingerTrees
               \cup ScopeTrees \cup NotRootTrees}
    \cup NamesakeTrees

\* ------------------------------------------------------------------------
\* autorig_boxman and auto_rig
\* ------------------------------------------------------------------------
NoRequest == [jt |-> None, hasParent |-> FALSE, parentJt |-> None,
              asked |-> FALSE, consulted |-> FALSE]

NoControl == [name |-> None, vertex_list |-> <<>>]

NoArmature == [exists |-> FALSE, scene |-> FALSE, main |-> FALSE]

\* the loops in other orders
fixture_order_mesh_first ==
    <<"mesh_creation", "parenting", "control_creation",
      "collection_assignments">>

fixture_order_controls_early ==
    <<"parenting", "control_creation", "mesh_creation",
      "collection_assignments">>

fixture_order_collections_first ==
    <<"collection_assignments", "parenting", "mesh_creation",
      "control_creation">>

\* the order of the four "for item in root_rigger.stored_..." loops
fixture_order ==
    <<"parenting", "mesh_creation", "control_creation",
      "collection_assignments">>

\* mode_set calls that go to pose mode before two of the loops
ModeBeforePoseTwice(q) ==
    IF q \in {"parenting", "control_creation"} THEN "POSE" ELSE "OBJECT"

\* the mode_set call that precedes each loop
ModeBefore(q) == IF q = "control_creation" THEN "POSE" ELSE "OBJECT"

\* how many actions of queue q have run
Ran(ex, q) == Cardinality({k \in 1..Len(ex) : ex[k].q = q})

\* a loop that takes its items from the tail
NextItemFromTail(queue, done) == Len(queue) - done

\* "for item in list": the item the loop takes after done items
NextItem(queue, done) == done + 1

\* a queue_* that runs the closure as it appends it
DeferAndRun(qs, ex, q, act) ==
    [queues |-> [qs EXCEPT ![q] = Append(@, act)],
     executed |-> Append(ex, [q |-> q, i |-> Len(qs[q]) + 1, act |-> act,
                              mode |-> "EDIT"])]

\* queue_*: append the closure; nothing runs
Defer(qs, ex, q, act) ==
    [queues |-> [qs EXCEPT ![q] = Append(@, act)], executed |-> ex]

Init ==
    /\ tree \in Trees
    /\ mode \in {"OBJECT", "EDIT"}
    /\ pc = "start"
    /\ phase = 0
    /\ modeSets = 0
    /\ trace = <<>>
    /\ riggers = <<>>
    /\ bones = <<>>
    /\ queues = [q \in {"parenting", "mesh_creation", "control_creation",
                        "collection_assignments"} |-> <<>>]
    /\ executed = <<>>
    /\ armature = NoArmature
    /\ error = NoErr
    /\ raised = NoErr
    /\ fq = NoRequest
    /\ control = NoControl
    /\ vertex_array = <<>>

\* autorig_boxman up to the call of root_rigger.rig(context)
Start ==
    /\ pc = "start"
    /\ IF mode # "OBJECT"
       THEN /\ error' = Err("NotInObjectModeException", "check_for_object_mode", None)
            /\ pc' = "except"
            /\ UNCHANGED trace
       ELSE IF tree.jt # "OBJECT_ROOT"
       THEN /\ error' = Err("ObjectIsNotRootException", "autorig_boxman", None)
            /\ pc' = "except"
            /\ UNCHANGED trace
       ELSE LET made == create_rigger(tree.jt, FALSE, None, None)
                root == NewRigger(tree, <<>>, FALSE, NoRequest, made.cls, TRUE)
                out == Rig(root)
                last == IF out.err = NoErr THEN Step("return")
                        ELSE [Step("raise") EXCEPT !.err = out.err]
            IN /\ trace' = <<Construct(root)>> \o out.ev \o <<last>>
               /\ pc' = "rig"
               /\ UNCHANGED error
    /\ UNCHANGED <<tree, phase, mode, modeSets, riggers, bones, queues,
                   executed, armature, raised, fq,
                   control, vertex_array>>

\* the steps of the traversal, one at a time
AtStep(op) == pc = "rig" /\ trace # <<>> /\ Head(trace).op = op

StepConstruct ==
    /\ AtStep("construct")
    /\ riggers' = Append(riggers,
           [path |-> Head(trace).path,
            jt |-> Head(trace).jt,
            cls |-> Head(trace).cls,
            byFactory |-> Head(trace).byFactory,
            armature_object_name |-> Head(trace).armature_object_name,
            absolute_root_rigger |-> Head(trace).absolute_root_rigger,
            local_control_root |-> Head(trace).local_control_root,
            fixture |-> Head(trace).fixture,
            pole_target_bone |-> Head(trace).pole_target_bone,
            pole_target_offset |-> Head(trace).pole_target_offset,
            chain_length |-> Head(trace).chain_length])
    /\ trace' = Tail(trace)
    /\ UNCHANGED <<tree, pc, phase, mode, modeSets, bones, queues, executed,
                   armature, error, raised, fq,
                   control, vertex_array>>

\* bpy.ops.object.armature_add(enter_editmode=True)
StepArmatureAdd ==
    /\ AtStep("armature_add")
    /\ mode' = "EDIT"
    /\ armature' = [exists |-> TRUE, scene |-> TRUE, main |-> FALSE]
    /\ trace' = Tail(trace)
    /\ UNCHANGED <<tree, pc, phase, modeSets, riggers, bones, queues,
                   executed, error, raised, fq,
                   control, vertex_array>>

StepBone ==
    /\ AtStep("bone")
    /\ bones' = Append(bones, [id |-> Head(trace).bone,
                               name |-> Head(trace).name,
                               head |-> Head(trace).head,
                               parent |-> NoBone, use_connect |-> FALSE])
    /\ trace' = Tail(trace)
    /\ UNCHANGED <<tree, pc, phase, mode, modeSets, riggers, queues,
                   executed, armature, error, raised, fq,
                   control, vertex_array>>

StepParent ==
    /\ AtStep("parent")
    /\ bones' = [k \in 1..Len(bones) |->
                    IF bones[k].id = Head(trace).bone
                    THEN [bones[k] EXCEPT !.parent = Head(trace).parent,
                                          !.use_connect = Head(trace).connect]
                    ELSE bones[k]]
    /\ trace' = Tail(trace)
    /\ UNCHANGED <<tree, pc, phase, mode, modeSets, riggers, queues,
                   executed, armature, error, raised, fq,
                   control, vertex_array>>

StepConnect ==
    /\ AtStep("connect")
    /\ bones' = [k \in 1..Len(bones) |->
                    IF bones[k].id = Head(trace).bone
                    THEN [bones[k] EXCEPT !.use_connect = Head(trace).connect]
                    ELSE bones[k]]
    /\ trace' = Tail(trace)
    /\ UNCHANGED <<tree, pc, phase, mode, modeSets, riggers, queues,
                   executed, armature, error, raised, fq,
                   control, vertex_array>>

\* the stored lists of the rigger that appends
FixtureOf(path) ==
    (CHOOSE r \in {riggers[k] : k \in 1..Len(riggers)} : r.path = path).fixture

\* self.stored_..._fixture.append(lambda ...): queues holds the four lists of
\* the root rigger, which auto_rig drains; an append to any other list does
\* not reach them
StepQueue ==
    /\ AtStep("queue")
    /\ IF FixtureOf(Head(trace).act.owner) = riggers[1].fixture
       THEN LET d == Defer(queues, executed, Head(trace).q, Head(trace).act)
            IN queues' = d.queues /\ executed' = d.executed
       ELSE UNCHANGED <<queues, executed>>
    /\ trace' = Tail(trace)
    /\ UNCHANGED <<tree, pc, phase, mode, modeSets, riggers, bones,
                   armature, error, raised, fq,
                   control, vertex_array>>

\* an exception leaves root_rigger.rig and auto_rig
\* a raise that takes back what the pass made: the bones and the deferred
\* actions are dropped
StepRaiseRollsBack ==
    /\ AtStep("raise")
    /\ error' = Head(trace).err
    /\ pc' = "except"
    /\ trace' = Tail(trace)
    /\ bones' = <<>>
    /\ queues' = [q \in DOMAIN queues |-> <<>>]
    /\ UNCHANGED <<tree, phase, mode, modeSets, riggers,
                   executed, armature, raised, fq,
                   control, vertex_array>>

StepRaise ==
    /\ AtStep("raise")
    /\ error' = Head(trace).err
    /\ pc' = "except"
    /\ trace' = Tail(trace)
    /\ UNCHANGED <<tree, phase, mode, modeSets, riggers, bones, queues,
                   executed, armature, raised, fq,
                   control, vertex_array>>

\* a traversal that has taken the children out of the root's list when it
\* returns
StepReturnChildrenTaken ==
    /\ AtStep("return")
    /\ pc' = "mode_set"
    /\ phase' = 1
    /\ trace' = Tail(trace)
    /\ tree' = [tree EXCEPT !.kids = <<>>]
    /\ UNCHANGED <<mode, modeSets, riggers, bones, queues, executed,
                   armature, error, raised, fq,
                   control, vertex_array>>

\* root_rigger.rig returns
StepReturn ==
    /\ AtStep("return")
    /\ pc' = "mode_set"
    /\ phase' = 1
    /\ trace' = Tail(trace)
    /\ UNCHANGED <<tree, mode, modeSets, riggers, bones, queues, executed,
                   armature, error, raised, fq,
                   control, vertex_array>>

\* bpy.ops.object.mode_set before a loop
ModeSet ==
    /\ pc = "mode_set"
    /\ mode' = ModeBefore(fixture_order[phase])
    /\ modeSets' = modeSets + 1
    /\ pc' = "drain"
    /\ UNCHANGED <<tree, phase, trace, riggers, bones, queues, executed,
                   armature, error, raised, fq,
                   control, vertex_array>>

Draining(q) == pc = "drain" /\ fixture_order[phase] = q

\* item(context) returns
RunItem ==
    /\ pc = "drain"
    /\ LET q == fixture_order[phase]
           i == NextItem(queues[q], Ran(executed, q))
       IN /\ Ran(executed, q) < Len(queues[q])
          /\ i \in 1..Len(queues[q])
          /\ executed' = Append(executed, [q |-> q, i |-> i,
                                           act |-> queues[q][i],
                                           mode |-> mode])
    /\ UNCHANGED <<tree, pc, phase, mode, modeSets, trace, riggers, bones,
                   queues, armature, error, raised, fq,
                   control, vertex_array>>

\* the exception is noted but the loop goes on
ItemRaisesLoopContinues ==
    /\ pc = "drain"
    /\ error = NoErr
    /\ Ran(executed, fixture_order[phase]) < Len(queues[fixture_order[phase]])
    /\ error' = Err("HostError", fixture_order[phase], None)
    /\ UNCHANGED <<tree, pc, phase, mode, modeSets, trace, riggers, bones,
                   queues, executed, armature, raised, fq,
                   control, vertex_array>>

\* item(context) raises: the host rejects what the closure asks for
ItemRaises ==
    /\ pc = "drain"
    /\ Ran(executed, fixture_order[phase]) < Len(queues[fixture_order[phase]])
    /\ error' = Err("HostError", fixture_order[phase], None)
    /\ pc' = "except"
    /\ UNCHANGED <<tree, phase, mode, modeSets, trace, riggers, bones,
                   queues, executed, armature, raised, fq,
                   control, vertex_array>>

\* the loop has no item left
LoopEnds ==
    /\ pc = "drain"
    /\ Ran(executed, fixture_order[phase]) >= Len(queues[fixture_order[phase]])
    /\ IF phase < Len(fixture_order)
       THEN phase' = phase + 1 /\ pc' = "mode_set"
       ELSE phase' = phase /\ pc' = "link_armature"
    /\ UNCHANGED <<tree, mode, modeSets, trace, riggers, bones, queues,
                   executed, armature, error, raised, fq,
                   control, vertex_array>>

\* collection.objects.link(armature_object)
LinkArmature ==
    /\ pc = "link_armature"
    /\ armature' = [armature EXCEPT !.main = TRUE]
    /\ pc' = "unlink_armature"
    /\ UNCHANGED <<tree, phase, mode, modeSets, trace, riggers, bones,
                   queues, executed, error, raised, fq,
                   control, vertex_array>>

\* scene_collection.objects.unlink(armature_object); auto_rig returns
UnlinkArmature ==
    /\ pc = "unlink_armature"
    /\ armature' = [armature EXCEPT !.scene = FALSE]
    /\ pc' = "done"
    /\ UNCHANGED <<tree, phase, mode, modeSets, trace, riggers, bones,
                   queues, executed, error, raised, fq,
                   control, vertex_array>>

\* except Exception as ex: standard_except_operation(ex), which re-raises
standard_except_operation ==
    /\ pc = "except"
    /\ raised' = error
    /\ pc' = "raised"
    /\ UNCHANGED <<tree, phase, mode, modeSets, trace, riggers, bones,
                   queues, executed, armature, error, fq,
                   control, vertex_array>>

Next ==
    \/ Start
    \/ StepConstruct
    \/ StepArmatureAdd
    \/ StepBone
    \/ StepParent
    \/ StepConnect
    \/ StepQueue
    \/ StepRaise
    \/ StepReturn
    \/ ModeSet
    \/ RunItem
    \/ ItemRaises
    \/ LoopEnds
    \/ LinkArmature
    \/ UnlinkArmature
    \/ standard_except_operation

Spec == Init /\ [][Next]_vars

\* ------------------------------------------------------------------------
\* The factory on its own: create_rigger asked for one (parent, child) pair
\* ------------------------------------------------------------------------
FactoryRequests ==
    {[jt |-> c, hasParent |-> FALSE, parentJt |-> None, asked |-> FALSE,
      consulted |-> FALSE] : c \in AnyType}
    \cup {[jt |-> c, hasParent |-> TRUE, parentJt |-> p, asked |-> FALSE,
           consulted |-> FALSE] : c \in AnyType, p \in AnyType}

\* the class of an existing rigger for an object of joint type jt: what the
\* factory builds for it, or the AccessoryRigger that AccessoryRigger.rig
\* builds for any object below an accessory
ClassOfParent(jt) ==
    IF jt \in DOMAIN type_dictionary THEN type_dictionary[jt]
    ELSE "AccessoryRigger"

InitFactory ==
    /\ fq \in FactoryRequests
    /\ control = NoControl
    /\ vertex_array = <<>>
    /\ tree = Label(Leaf("OBJECT_ROOT"), <<>>)
    /\ mode = "EDIT"
    /\ pc = "factory"
    /\ phase = 0
    /\ modeSets = 0
    /\ trace = <<>>
    /\ riggers = <<>>
    /\ bones = <<>>
    /\ queues = [q \in {"parenting", "mesh_creation", "control_creation",
                        "collection_assignments"} |-> <<>>]
    /\ executed = <<>>
    /\ armature = NoArmature
    /\ error = NoErr
    /\ raised = NoErr

CreateRiggerCall ==
    /\ pc = "factory"
    /\ LET made == create_rigger(fq.jt, fq.hasParent, fq.parentJt,
                                 ClassOfParent(fq.parentJt))
       IN /\ fq' = [fq EXCEPT !.asked = TRUE, !.consulted = made.consulted]
          /\ error' = made.err
          /\ riggers' = IF made.err = NoErr
                        THEN <<[path |-> <<1>>, jt |-> fq.jt, cls |-> made.cls,
                                byFactory |-> TRUE]>>
                        ELSE <<>>
    /\ pc' = "factory_done"
    /\ UNCHANGED <<tree, phase, mode, modeSets, trace, bones, queues,
                   executed, armature, raised, control,
                   vertex_array>>

NextFactory == CreateRiggerCall

SpecFactory == InitFactory /\ [][NextFactory]_vars

\* ------------------------------------------------------------------------
\* The bounding box on its own: get_unit_cube, then scale_to_boxman on a
\* vertex list of integer coordinates
\* ------------------------------------------------------------------------
MaxCoord == 1

Coords == (0 - MaxCoord)..MaxCoord

Vertices == {<<x, y, z>> : x \in Coords, y \in Coords, z \in Coords}

\* the vertex lists of an object: none, one or two vertices
VertexLists ==
    {<<>>} \cup {<<v>> : v \in Vertices}
           \cup {<<v, w>> : v \in Vertices, w \in Vertices}

\* BoxmanRigControlFactory.get_unit_cube
get_unit_cube(name) ==
    [ name |-> name,
      vertex_list |-> << <<0, 0, 0>>, <<0, 0, 1>>, <<0, 1, 0>>, <<0, 1, 1>>,
                         <<1, 0, 0>>, <<1, 0, 1>>, <<1, 1, 0>>, <<1, 1, 1>> >> ]

\* vectors[:, a] as the set of its values
Column(vectors, a) == {vectors[i][a] : i \in 1..Len(vectors)}

amin(values) == CHOOSE m \in values : \A v \in values : m <= v

amax(values) == CHOOSE m \in values : \A v \in values : m >= v

\* the scaled coordinate without the offset of the minimum
ScaledFromZero(box, data, i, a) ==
    ((box[i][a] - amin(Column(box, a)))
        * (amax(Column(data, a)) - amin(Column(data, a))))
       \div (amax(Column(box, a)) - amin(Column(box, a)))

\* x_box_scaled, y_box_scaled, z_box_scaled of the i-th vertex of the box
Scaled(box, data, i, a) ==
    amin(Column(data, a))
    + ((box[i][a] - amin(Column(box, a)))
          * (amax(Column(data, a)) - amin(Column(data, a))))
         \div (amax(Column(box, a)) - amin(Column(box, a)))

\* BoxmanRigControl.scale_to_boxman: the new vertex_list
scale_to_boxman(box, data) ==
    [i \in 1..Len(box) |->
        <<Scaled(box, data, i, 1), Scaled(box, data, i, 2),
          Scaled(box, data, i, 3)>>]

InitScale ==
    /\ vertex_array \in VertexLists
    /\ control = NoControl
    /\ pc = "get_unit_cube"
    /\ tree = Label(Leaf("OBJECT_ROOT"), <<>>)
    /\ mode = "OBJECT"
    /\ phase = 0
    /\ modeSets = 0
    /\ trace = <<>>
    /\ riggers = <<>>
    /\ bones = <<>>
    /\ queues = [q \in {"parenting", "mesh_creation", "control_creation",
                        "collection_assignments"} |-> <<>>]
    /\ executed = <<>>
    /\ armature = NoArmature
    /\ error = NoErr
    /\ raised = NoErr
    /\ fq = NoRequest

\* ring_data = BoxmanRigControlFactory.get_unit_cube(control_name)
GetUnitCube ==
    /\ pc = "get_unit_cube"
    /\ control' = get_unit_cube("control")
    /\ pc' = "scale_to_boxman"
    /\ UNCHANGED <<tree, phase, mode, modeSets, trace, riggers, bones,
                   queues, executed, armature, error, raised, fq,
                   vertex_array>>

\* ring_data.scale_to_boxman(linked_vertex_array); data_vectors[:, 0] of an
\* empty list raises IndexError before vertex_list is assigned
ScaleToBoxman ==
    /\ pc = "scale_to_boxman"
    /\ IF vertex_array = <<>>
       THEN /\ error' = Err("IndexError", "scale_to_boxman", None)
            /\ UNCHANGED control
       ELSE /\ control' = [control EXCEPT !.vertex_list =
                              scale_to_boxman(control.vertex_list,
                                              vertex_array)]
            /\ UNCHANGED error
    /\ pc' = "scaled"
    /\ UNCHANGED <<tree, phase, mode, modeSets, trace, riggers, bones,
                   queues, executed, armature, raised, fq, vertex_array>>

NextScale ==
    \/ GetUnitCube
    \/ ScaleToBoxman

SpecScale == InitScale /\ [][NextScale]_vars

\* ------------------------------------------------------------------------
\* Properties of auto_rig's phases
\* ------------------------------------------------------------------------
AllRan(q) == Ran(executed, q) = Len(queues[q])

SomeRan(q) == Ran(executed, q) > 0

C2_PhasesDrainInOrder ==
    /\ SomeRan("control_creation") =>
          AllRan("mesh_creation") /\ AllRan("parenting")
    /\ SomeRan("collection_assignments") => AllRan("control_creation")
    /\ (armature.main \/ (armature.exists /\ ~armature.scene)) =>
          AllRan("collection_assignments")

C2_Witness ==
    /\ pc = "done"
    /\ armature.main /\ ~armature.scene
    /\ SomeRan("collection_assignments")
    /\ SomeRan("control_creation")
    /\ SomeRan("mesh_creation")
    /\ SomeRan("parenting")

\* the position of executed[k] among the executed actions of its own queue
RankInQueue(k) ==
    Cardinality({j \in 1..k : executed[j].q = executed[k].q})

\* C3: within each queue the actions execute in the order in which they
\* were appended (the k-th executed action of a queue is the k-th appended
\* one), and on a successful run every appended action has executed, once.
C3_FifoExactlyOnce ==
    /\ \A k \in 1..Len(executed) :
          /\ executed[k].i = RankInQueue(k)
          /\ executed[k].i <= Len(queues[executed[k].q])
          /\ executed[k].act = queues[executed[k].q][executed[k].i]
    /\ pc = "done" =>
          \A q \in DOMAIN queues :
             \A i \in 1..Len(queues[q]) :
                Cardinality({k \in 1..Len(executed) :
                                executed[k].q = q /\ executed[k].i = i}) = 1

C3_Witness ==
    /\ pc = "done"
    /\ \A q \in DOMAIN queues : Len(queues[q]) >= 2
    /\ Len(queues["control_creation"]) >= 5

\* C4: while root_rigger.rig traverses the tree no deferred action
\* executes: nothing has executed until the traversal has returned, nor
\* before auto_rig's first mode_set.
C4_NothingRunsDuringTraversal ==
    (pc \in {"start", "rig"} \/ modeSets = 0) => executed = <<>>

C4_Witness ==
    /\ pc = "rig"
    /\ mode = "EDIT"
    /\ \A q \in DOMAIN queues : Len(queues[q]) >= 1
    /\ executed = <<>>

\* C5: a failure aborts auto_rig at once.  If the traversal raises, no
\* deferred action has executed and auto_rig has made no mode_set call; if
\* a deferred action raises, actions of the failing queue are left over and
\* no action of a later loop has executed; after the failure nothing more
\* executes and no mode is set; the exception leaves autorig_boxman.
C5_AfterFailure ==
    /\ error # NoErr => pc \in {"except", "raised"}
    /\ (error # NoErr /\ phase = 0) => executed = <<>> /\ modeSets = 0
    /\ (error # NoErr /\ phase > 0) =>
          /\ ~AllRan(fixture_order[phase])
          /\ \A j \in (phase + 1)..Len(fixture_order) :
                ~SomeRan(fixture_order[j])
          /\ ~armature.main
    /\ pc = "raised" => raised = error /\ raised # NoErr

C5_FailureAborts ==
    /\ []C5_AfterFailure
    /\ [][error # NoErr =>
             /\ executed' = executed
             /\ modeSets' = modeSets
             /\ mode' = mode
             /\ armature' = armature
             /\ (pc = "except" => pc' = "raised" /\ raised' = error)]_vars

C5_Witness ==
    /\ pc = "raised"
    /\ raised.cls = "HostError"
    /\ phase = 2
    /\ SomeRan(fixture_order[2])
    /\ ~AllRan(fixture_order[2])

\* ------------------------------------------------------------------------
\* Properties of the factory
\* ------------------------------------------------------------------------
IncompatibleChain(parentJt) ==
    Err("RiggerException", "IncompatibleChain", ClassOfParent(parentJt))

\* C6: for every pair of registered joint types (parent, child),
\* create_rigger fails with the incompatible-chain RiggerException exactly
\* when the child's type is in the matrix entry of the parent's type, and
\* returns a rigger of the child's class otherwise; CHAIN_SEGMENT under
\* OBJECT_ROOT fails.
C6_MatrixDecides ==
    (pc = "factory_done" /\ fq.hasParent /\ fq.jt \in JointTypes
        /\ fq.parentJt \in JointTypes) =>
       /\ (error = IncompatibleChain(fq.parentJt))
             <=> (fq.jt \in forbidden_matrix[fq.parentJt])
       /\ fq.jt \notin forbidden_matrix[fq.parentJt] =>
             /\ error = NoErr
             /\ Len(riggers) = 1
             /\ riggers[1].cls = type_dictionary[fq.jt]
       /\ fq.jt \in forbidden_matrix[fq.parentJt] => riggers = <<>>
       /\ (fq.jt = "CHAIN_SEGMENT" /\ fq.parentJt = "OBJECT_ROOT") =>
             error = IncompatibleChain("OBJECT_ROOT")

C6_Witness ==
    /\ pc = "factory_done"
    /\ fq.hasParent
    /\ fq.jt = "CHAIN_SEGMENT"
    /\ fq.parentJt = "OBJECT_ROOT"
    /\ error = IncompatibleChain("OBJECT_ROOT")

RequiredChild ==
    [ SHOULDER_ROOT |-> "ARM_HUMERUS",
      ARM_HUMERUS |-> "ARM_RADIUS",
      ARM_RADIUS |-> "HAND_ROOT",
      LEG_THIGH |-> "LEG_SHIN",
      LEG_SHIN |-> "FOOT_ROOT",
      CHAIN_ROOT |-> "CHAIN_SEGMENT" ]

CountOfType(n, jt) ==
    Cardinality({i \in 1..Len(n.kids) : n.kids[i].jt = jt})

\* a subtree that breaks no rule of the factory or of a verify_chain
RECURSIVE ValidUnder(_, _)
ValidUnder(n, parentJt) ==
    /\ n.jt \in JointTypes
    /\ n.jt \notin forbidden_matrix[parentJt]
    /\ n.jt \in DOMAIN RequiredChild =>
          CountOfType(n, RequiredChild[n.jt]) = 1
    /\ n.jt = "CHAIN_SEGMENT" => CountOfType(n, "CHAIN_SEGMENT") <= 1
    /\ \/ n.jt \in {"ACCESSORY", "ARM_ELBOW", "LEG_KNEE"}
       \/ \A i \in 1..Len(n.kids) : ValidUnder(n.kids[i], n.jt)

\* root_rigger.rig was entered and has returned or raised
TraversalOver == riggers # <<>> /\ pc \notin {"start", "rig"}

TraversalReturned == phase >= 1

\* the root's only child is a chain rigger whose children are all valid
HostedVariant ==
    /\ tree.jt = "OBJECT_ROOT"
    /\ Len(tree.kids) = 1
    /\ tree.kids[1].jt \in DOMAIN RequiredChild
    /\ tree.kids[1].jt \notin forbidden_matrix["OBJECT_ROOT"]
    /\ \A i \in 1..Len(tree.kids[1].kids) :
          ValidUnder(tree.kids[1].kids[i], tree.kids[1].jt)

MissingRequiredChild(cls) ==
    /\ error.cls = "RiggerException"
    /\ error.at = cls
    /\ error.why \in {"verify_chain: requires a child",
                      "verify_chain: requires ONE child of type"}

\* C8: a rigger with a mandatory child type fails with the
\* missing-required-child RiggerException when its node has zero or two
\* or more children of that type, and its rigging succeeds when it has
\* exactly one and the subtrees below are valid, whatever its other children.
C8_MandatoryChildDecides ==
    (HostedVariant /\ TraversalOver) =>
       IF CountOfType(tree.kids[1], RequiredChild[tree.kids[1].jt]) = 1
       THEN TraversalReturned
       ELSE /\ ~TraversalReturned
            /\ MissingRequiredChild(type_dictionary[tree.kids[1].jt])

\* C8: the radius with its hand and no elbow, which is valid and fails
C8_Witness ==
    /\ HostedVariant
    /\ tree.kids[1].jt = "ARM_RADIUS"
    /\ CountOfType(tree.kids[1], "HAND_ROOT") = 1
    /\ CountOfType(tree.kids[1], "ARM_ELBOW") = 0
    /\ raised.cls = "ValueError"
    /\ raised.at = "HandRootRigger"

\* a CHAIN_SEGMENT below the CHAIN_ROOT that is the root's only child
SegmentHosted ==
    /\ tree.jt = "OBJECT_ROOT"
    /\ Len(tree.kids) = 1
    /\ tree.kids[1].jt = "CHAIN_ROOT"
    /\ Len(tree.kids[1].kids) = 1
    /\ tree.kids[1].kids[1].jt = "CHAIN_SEGMENT"

Segment == tree.kids[1].kids[1]

TooManySegments ==
    Err("RiggerException", "verify_chain: only supports ONE child of type",
        "ChainSegmentRigger")

HasBone(path) ==
    \E k \in 1..Len(bones) : bones[k].id = BoneId(path, "bone")

\* C9 as stated: rigging a CHAIN_SEGMENT node fails with a RiggerException
\* if and only if the node has more than one CHAIN_SEGMENT child.
C9_SegmentFailsIffTwoSegments ==
    (SegmentHosted /\ TraversalOver) =>
       ((~TraversalReturned /\ error.cls = "RiggerException")
           <=> (CountOfType(Segment, "CHAIN_SEGMENT") > 1))

\* C9 as the code has it: the verify_chain of a CHAIN_SEGMENT rigger raises
\* its RiggerException if and only if the node has more than one
\* CHAIN_SEGMENT child; with zero or one the check passes and the bone of
\* the segment is made, whatever the other children (which can still make
\* the rigging fail, with the factory's RiggerException among others).
C9_SegmentCheckFailsIffTwoSegments ==
    (SegmentHosted /\ TraversalOver) =>
       /\ (error = TooManySegments)
             <=> (CountOfType(Segment, "CHAIN_SEGMENT") > 1)
       /\ HasBone(<<1, 1>>) <=> (CountOfType(Segment, "CHAIN_SEGMENT") <= 1)

C9_Witness ==
    /\ SegmentHosted
    /\ TraversalReturned
    /\ CountOfType(Segment, "CHAIN_SEGMENT") = 1
    /\ Len(Segment.kids) = 3
    /\ HasBone(<<1, 1>>)

RECURSIVE NodePaths(_, _)
NodePaths(n, path) ==
    {path} \cup UNION {NodePaths(n.kids[i], Append(path, i)) :
                          i \in 1..Len(n.kids)}

\* the nodes a rig() reaches: below an accessory every node, elsewhere
\* nothing below an ARM_ELBOW or a LEG_KNEE
RECURSIVE Visited(_, _, _)
Visited(n, path, inAccessory) ==
    {path} \cup
    (IF ~inAccessory /\ n.jt \in {"ARM_ELBOW", "LEG_KNEE"} THEN {}
     ELSE UNION {Visited(n.kids[i], Append(path, i),
                         inAccessory \/ n.jt = "ACCESSORY") :
                    i \in 1..Len(n.kids)})

RiggerPaths == {riggers[k].path : k \in 1..Len(riggers)}

\* C10 as stated: on every tree on which the traversal completes, exactly
\* one rigger is constructed for each node reachable from the root.
C10_OneRiggerPerNode ==
    TraversalReturned =>
       /\ RiggerPaths = NodePaths(tree, <<>>)
       /\ Cardinality(RiggerPaths) = Len(riggers)

\* C10 as the code has it: on every tree on which the traversal completes,
\* exactly one rigger is constructed for each node reachable from the root
\* without passing through an ARM_ELBOW or LEG_KNEE node that lies outside
\* every ACCESSORY subtree, and none for the nodes below such a node.
C10_OneRiggerPerVisitedNode ==
    TraversalReturned =>
       /\ RiggerPaths = Visited(tree, <<>>, FALSE)
       /\ Cardinality(RiggerPaths) = Len(riggers)

C10_Witness ==
    /\ pc = "done"
    /\ Len(tree.kids) = 1
    /\ tree.kids[1].jt = "DEFAULT"
    /\ Len(tree.kids[1].kids) = 1
    /\ tree.kids[1].kids[1].jt = "LEG_KNEE"
    /\ Len(tree.kids[1].kids[1].kids) = 1
    /\ RiggerPaths = {<<>>, <<1>>, <<1, 1>>}
    /\ Len(riggers) = 3

\* ------------------------------------------------------------------------
\* Properties of what the traversal builds and enqueues
\* ------------------------------------------------------------------------
\* the enqueued actions that call fn, in the order of their queue
RECURSIVE SelectActs(_, _)
SelectActs(queue, fn) ==
    IF queue = <<>> THEN <<>>
    ELSE (IF Head(queue).fn = fn THEN <<Head(queue)>> ELSE <<>>)
         \o SelectActs(Tail(queue), fn)

ControlActs(fn) == SelectActs(queues["control_creation"], fn)

\* the bones made so far whose role is the control of their rigger
ControlBones == {bones[k].id.o : k \in {j \in 1..Len(bones) :
                                          bones[j].id.r = "ctrl"}}

RECURSIVE NodeAt(_, _)
NodeAt(n, path) ==
    IF path = <<>> THEN n ELSE NodeAt(n.kids[Head(path)], Tail(path))

\* the name of the bone made for the object at path
BoneNameAt(path) == get_object_name(NodeAt(tree, path))

FirstOfType(n, jt) == CHOOSE i \in 1..Len(n.kids) : n.kids[i].jt = jt

\* the root's only child is a CHAIN_ROOT with one CHAIN_SEGMENT child
ChainHosted ==
    /\ tree.jt = "OBJECT_ROOT"
    /\ Len(tree.kids) = 1
    /\ tree.kids[1].jt = "CHAIN_ROOT"
    /\ CountOfType(tree.kids[1], "CHAIN_SEGMENT") = 1

\* the path of the last segment of the run that starts at node n
RECURSIVE LastSegment(_, _)
LastSegment(n, path) ==
    IF CountOfType(n, "CHAIN_SEGMENT") = 1
    THEN LET i == FirstOfType(n, "CHAIN_SEGMENT")
         IN LastSegment(n.kids[i], Append(path, i))
    ELSE path

FirstSegmentPath == <<1, FirstOfType(tree.kids[1], "CHAIN_SEGMENT")>>

LastSegmentPath ==
    LastSegment(tree.kids[1].kids[FirstSegmentPath[2]], FirstSegmentPath)

\* the number of segments of the run
RunLength == Len(LastSegmentPath) - 1

\* C11: for a CHAIN_ROOT followed by a run of n >= 1 CHAIN_SEGMENT nodes
\* exactly one IK constraint is enqueued, by the last segment, on that
\* segment's own bone, with chain length n + 1, targeting the only IK
\* control bone of the chain, which is the last segment's.
C11_OneIkAtEndOfRun ==
    (ChainHosted /\ TraversalReturned) =>
       /\ Len(ControlActs("create_ik_constraint")) = 1
       /\ LET ik == ControlActs("create_ik_constraint")[1]
          IN /\ ik.owner = LastSegmentPath
             /\ ik.bone = BoneNameAt(LastSegmentPath)
             /\ ik.target = BoneNameAt(LastSegmentPath) \o "_IK_CTRL"
             /\ ik.n = RunLength + 1
             /\ ik.pole = None
       /\ ControlBones = {LastSegmentPath}

C11_Witness ==
    /\ ChainHosted
    /\ TraversalReturned
    /\ RunLength = 3
    /\ Len(ControlActs("create_ik_constraint")) = 1
    /\ ControlActs("create_ik_constraint")[1].n = 4

\* the root's only child is a shoulder with one humerus, whose radius is
\* its only radius
ArmHosted ==
    /\ tree.jt = "OBJECT_ROOT"
    /\ Len(tree.kids) = 1
    /\ tree.kids[1].jt = "SHOULDER_ROOT"
    /\ CountOfType(tree.kids[1], "ARM_HUMERUS") = 1
    /\ CountOfType(NodeAt(tree, <<1, FirstOfType(tree.kids[1], "ARM_HUMERUS")>>),
                   "ARM_RADIUS") = 1

HumerusPath == <<1, FirstOfType(tree.kids[1], "ARM_HUMERUS")>>

RadiusPath ==
    Append(HumerusPath, FirstOfType(NodeAt(tree, HumerusPath), "ARM_RADIUS"))

HandPath ==
    Append(RadiusPath, FirstOfType(NodeAt(tree, RadiusPath), "HAND_ROOT"))

ElbowPath ==
    Append(RadiusPath, FirstOfType(NodeAt(tree, RadiusPath), "ARM_ELBOW"))

HasBoneNamed(id, name) ==
    \E k \in 1..Len(bones) : bones[k].id = id /\ bones[k].name = name

\* the pole angle by offset sign and orientation
PoleAngle ==
    [ sign \in {1, -1}, o \in Orientations |->
        IF sign = 1 THEN (IF o = "R" THEN -105 ELSE 0)
        ELSE (IF o = "R" THEN 75 ELSE 180) ]

\* offset_sign of an ElbowRigger
ElbowOffsetSign == -1

\* C12: a shoulder -> humerus -> radius -> hand chain whose radius also has
\* an elbow child produces exactly one IK constraint: on the radius bone,
\* with chain length 2, targeting the hand's IK control bone, with the
\* elbow's control bone as pole target and the pole angle of the table at
\* (offset sign of the elbow, orientation of the hand).
C12_ArmIkWithElbow ==
    (ArmHosted /\ TraversalReturned
        /\ CountOfType(NodeAt(tree, RadiusPath), "ARM_ELBOW") = 1) =>
       /\ Len(ControlActs("create_ik_constraint")) = 1
       /\ LET ik == ControlActs("create_ik_constraint")[1]
          IN /\ ik.owner = HandPath
             /\ ik.bone = BoneNameAt(RadiusPath)
             /\ ik.n = 2
             /\ ik.target = BoneNameAt(HandPath) \o "_IK_CTRL"
             /\ HasBoneNamed(BoneId(HandPath, "ctrl"), ik.target)
             /\ ik.pole = BoneNameAt(ElbowPath) \o "_POLE_CTRL"
             /\ HasBoneNamed(BoneId(ElbowPath, "ctrl"), ik.pole)
             /\ ik.angle = PoleAngle[ElbowOffsetSign,
                                     NodeAt(tree, HandPath).orient]

C12_Witness ==
    /\ ArmHosted
    /\ TraversalReturned
    /\ CountOfType(NodeAt(tree, RadiusPath), "ARM_ELBOW") = 1
    /\ NodeAt(tree, HandPath).orient = "R"
    /\ NodeAt(tree, ElbowPath).orient = "L"
    /\ Len(ControlActs("create_ik_constraint")) = 1
    /\ ControlActs("create_ik_constraint")[1].angle = 75

\* the radius of the arm has one hand and no elbow
ArmWithoutElbow ==
    /\ ArmHosted
    /\ CountOfType(NodeAt(tree, RadiusPath), "HAND_ROOT") = 1
    /\ CountOfType(NodeAt(tree, RadiusPath), "ARM_ELBOW") = 0

\* C13: the elbow pole target is optional: a radius with exactly one
\* HAND_ROOT child and no ARM_ELBOW child is rigged successfully, and the
\* hand enqueues an IK constraint of chain length 2 on the radius bone with
\* no pole target.
C13_ElbowOptional ==
    (ArmWithoutElbow /\ TraversalOver) =>
       /\ TraversalReturned
       /\ Len(ControlActs("create_ik_constraint")) = 1
       /\ LET ik == ControlActs("create_ik_constraint")[1]
          IN /\ ik.bone = BoneNameAt(RadiusPath)
             /\ ik.n = 2
             /\ ik.pole = None

\* C13: the arm without elbow, whose hand raises before it enqueues anything
C13_Witness ==
    /\ ArmWithoutElbow
    /\ NodeAt(tree, HandPath).orient = "L"
    /\ raised.cls = "ValueError"
    /\ raised.why = "get_angle_orient"
    /\ raised.at = "HandRootRigger"
    /\ HasBoneNamed(BoneId(HandPath, "ctrl"),
                    BoneNameAt(HandPath) \o "_IK_CTRL")
    /\ ControlActs("create_ik_constraint") = <<>>

\* root -> spine root -> spine section, the section a leaf
SpineOfThree ==
    /\ tree.jt = "OBJECT_ROOT"
    /\ Len(tree.kids) = 1
    /\ tree.kids[1].jt = "SPINE_ROOT"
    /\ Len(tree.kids[1].kids) = 1
    /\ tree.kids[1].kids[1].jt = "SPINE_SECTION"
    /\ tree.kids[1].kids[1].kids = <<>>

\* the positions of the actions fn in the control_creation queue
ActIndexes(fn) ==
    {k \in 1..Len(queues["control_creation"]) :
        queues["control_creation"][k].fn = fn}

\* the names of the bones the pass puts on the control layer
OnControlLayer ==
    {queues["control_creation"][k].bone : k \in
        {j \in ActIndexes("add_bone_to_layers") :
            \E l \in 1..Len(queues["control_creation"][j].layers) :
                queues["control_creation"][j].layers[l] = CONTROL_LAYER_INDEX}}

\* the rotation constraints enqueued with the influence inf (in hundredths)
RotationsOfInfluence(inf) ==
    {k \in ActIndexes("create_rotation_constraint") :
        queues["control_creation"][k].n = inf}

\* C14: for the chain root -> spine_root -> spine_section (leaf) the pass
\* produces two control bones, the root's ring bone and the spine root's
\* proxy, and enqueues exactly one additive copy-rotation constraint of
\* influence 0.5, which is owned by the section bone and targets the spine
\* root's control bone.
C14_SpineOfThree ==
    (SpineOfThree /\ TraversalReturned) =>
       /\ OnControlLayer = {BoneNameAt(<<>>), BoneNameAt(<<1>>) \o "_CTRL"}
       /\ ControlBones = {<<1>>}
       /\ HasBoneNamed(BoneId(<<1>>, "ctrl"), BoneNameAt(<<1>>) \o "_CTRL")
       /\ Cardinality(RotationsOfInfluence(50)) = 1
       /\ \A k \in RotationsOfInfluence(50) :
             /\ queues["control_creation"][k].owner = <<1, 1>>
             /\ queues["control_creation"][k].bone = BoneNameAt(<<1, 1>>)
             /\ queues["control_creation"][k].target
                    = BoneNameAt(<<1>>) \o "_CTRL"
       /\ \A k \in ActIndexes("create_rotation_constraint") :
             queues["control_creation"][k].bone = BoneNameAt(<<1, 1>>)
                => queues["control_creation"][k].n = 50

C14_Witness ==
    /\ SpineOfThree
    /\ TraversalReturned
    /\ Len(bones) = 4
    /\ Cardinality(OnControlLayer) = 2
    /\ Cardinality(RotationsOfInfluence(50)) = 1

FingerRoots == {"FINGER_ROOT", "TOE_ROOT"}

FingerSections == {"FINGER_SECTION", "TOE_SECTION"}

\* the nodes rigged by a rigger of one of the classes
RiggedAs(classes) ==
    {riggers[k].path : k \in {j \in 1..Len(riggers) :
                                 riggers[j].cls \in classes}}

\* p lies below r and every node strictly between them is of a type in types
ReachedThrough(r, p, types) ==
    /\ Len(r) < Len(p)
    /\ SubSeq(p, 1, Len(r)) = r
    /\ \A k \in (Len(r) + 1)..(Len(p) - 1) :
          NodeAt(tree, SubSeq(p, 1, k)).jt \in types

\* the rotation constraints the rigger of the node at p enqueued
RotationsOwnedBy(p) ==
    {k \in ActIndexes("create_rotation_constraint") :
        queues["control_creation"][k].owner = p}

\* the section at p has one rotation constraint, on its own bone, whose
\* target is the control bone of the root at r, and no control bone
SectionFollows(p, r) ==
    /\ Cardinality(RotationsOwnedBy(p)) = 1
    /\ \A k \in RotationsOwnedBy(p) :
          /\ queues["control_creation"][k].bone = BoneNameAt(p)
          /\ queues["control_creation"][k].target = BoneNameAt(r) \o "_CTRL"
    /\ p \notin ControlBones

RootHasControl(r) ==
    /\ HasBoneNamed(BoneId(r, "ctrl"), BoneNameAt(r) \o "_CTRL")
    /\ Cardinality({k \in 1..Len(bones) : bones[k].id = BoneId(r, "ctrl")}) = 1

\* C15 as stated: one control bone is created per FINGER_ROOT (TOE_ROOT),
\* and every FINGER_SECTION (TOE_SECTION) descendant reached from that root
\* through finger-family nodes only enqueues exactly one rotation constraint
\* on its own bone whose target is that root's control bone, and creates no
\* control bone of its own.
C15_SectionsFollowEveryRootAbove ==
    TraversalReturned =>
       \A r \in RiggedAs({"FingerRootRigger", "ToeRootRigger"}) :
          /\ RootHasControl(r)
          /\ \A p \in RiggedAs({"FingerSectionRigger", "ToeSectionRigger"}) :
                ReachedThrough(r, p, FingerRoots \cup FingerSections)
                   => SectionFollows(p, r)

\* C15 as the code has it: one control bone is created per FINGER_ROOT
\* (TOE_ROOT), and every FINGER_SECTION (TOE_SECTION) descendant reached
\* from that root through sections only, that is, every section whose
\* nearest root above is that root, enqueues exactly one rotation constraint
\* on its own bone whose target is that root's control bone, and creates no
\* control bone of its own.
C15_SectionsFollowNearestRoot ==
    TraversalReturned =>
       \A r \in RiggedAs({"FingerRootRigger", "ToeRootRigger"}) :
          /\ RootHasControl(r)
          /\ \A p \in RiggedAs({"FingerSectionRigger", "ToeSectionRigger"}) :
                ReachedThrough(r, p, FingerSections) => SectionFollows(p, r)

\* C15: a root, a section below it, and a section below the section, both
\* following the root's control
C15_Witness ==
    /\ TraversalReturned
    /\ Len(tree.kids) = 1
    /\ <<1>> \in RiggedAs({"FingerRootRigger"})
    /\ <<1, 1>> \in RiggedAs({"FingerSectionRigger"})
    /\ <<1, 1, 1>> \in RiggedAs({"ToeSectionRigger"})
    /\ SectionFollows(<<1, 1>>, <<1>>)
    /\ SectionFollows(<<1, 1, 1>>, <<1>>)

ProxyClasses == {"SpineRootRigger", "NeckRootRigger", "HeadRigger"}

\* the actions fn the rigger of the node at p enqueued for control creation
ActsOwnedBy(p, fn) ==
    {k \in ActIndexes(fn) : queues["control_creation"][k].owner = p}

\* the rigger of p enqueued one constraint fn, on the bone named bone, whose
\* subtarget is the bone named target
OneConstraint(p, fn, bone, target) ==
    /\ Cardinality(ActsOwnedBy(p, fn)) = 1
    /\ \A k \in ActsOwnedBy(p, fn) :
          /\ queues["control_creation"][k].bone = bone
          /\ queues["control_creation"][k].target = target

\* C16: for every SPINE_ROOT, NECK_ROOT and HEAD node the two constraints
\* are wired in opposite directions: the copy-location constraint is owned
\* by the control bone and targets the original bone, and the additive
\* copy-rotation constraint is owned by the original bone and targets the
\* control bone.
C16_OppositeDirections ==
    TraversalReturned =>
       \A p \in RiggedAs(ProxyClasses) :
          /\ OneConstraint(p, "create_location_constraint",
                           BoneNameAt(p) \o "_CTRL", BoneNameAt(p))
          /\ OneConstraint(p, "create_rotation_constraint",
                           BoneNameAt(p), BoneNameAt(p) \o "_CTRL")

\* C16: a neck root and a head below it, each with both constraints on its
\* original bone and the control as subtarget of both
C16_Witness ==
    /\ TraversalReturned
    /\ <<1>> \in RiggedAs({"NeckRootRigger"})
    /\ <<1, 1>> \in RiggedAs({"HeadRigger"})
    /\ \A p \in {<<1>>, <<1, 1>>} :
          /\ OneConstraint(p, "create_location_constraint",
                           BoneNameAt(p), BoneNameAt(p) \o "_CTRL")
          /\ OneConstraint(p, "create_rotation_constraint",
                           BoneNameAt(p), BoneNameAt(p) \o "_CTRL")

\* what holds of the code instead: both constraints of a spine root, neck
\* root or head are owned by the original bone and target the control bone
SameDirection ==
    TraversalReturned =>
       \A p \in RiggedAs(ProxyClasses) :
          /\ OneConstraint(p, "create_location_constraint",
                           BoneNameAt(p), BoneNameAt(p) \o "_CTRL")
          /\ OneConstraint(p, "create_rotation_constraint",
                           BoneNameAt(p), BoneNameAt(p) \o "_CTRL")

\* the (orientation, name) pairs of the nodes are pairwise distinct
DistinctNodes ==
    \A p \in NodePaths(tree, <<>>) : \A q \in NodePaths(tree, <<>>) :
       (NodeAt(tree, p).orient = NodeAt(tree, q).orient
           /\ NodeAt(tree, p).name = NodeAt(tree, q).name) => p = q

DistinctBoneNames ==
    \A i \in 1..Len(bones) : \A j \in 1..Len(bones) :
       bones[i].name = bones[j].name => i = j

\* the names of the meshes the mesh_creation actions create, in queue order:
\* the four templates of add_control_mesh_templates and the proportion
\* control of each create_proportion_control_shape
RECURSIVE CreatedMeshes(_)
CreatedMeshes(queue) ==
    IF queue = <<>> THEN <<>>
    ELSE (IF Head(queue).fn = "add_control_mesh_templates"
          THEN << get_root_control_name(Head(queue).arm),
                  get_default_control_name(Head(queue).arm),
                  get_pole_target_control_name(Head(queue).arm),
                  get_default_ik_control_name(Head(queue).arm) >>
          ELSE IF Head(queue).fn = "create_proportion_control_shape"
          THEN <<Head(queue).mesh>>
          ELSE <<>>)
         \o CreatedMeshes(Tail(queue))

DistinctMeshNames ==
    LET made == CreatedMeshes(queues["mesh_creation"])
    IN \A i \in 1..Len(made) : \A j \in 1..Len(made) :
          made[i] = made[j] => i = j

\* C17: names are unique within one pass: for every tree whose nodes have
\* pairwise distinct (orientation, name) pairs, all bone names created by
\* the traversal (node bones and control, IK and pole bones) are pairwise
\* distinct, and all mesh names created by mesh_creation actions are
\* pairwise distinct.
C17_NamesUnique ==
    (DistinctNodes /\ TraversalReturned) =>
       (DistinctBoneNames /\ DistinctMeshNames)

\* C17: a neck root and a head of one name on the two sides, whose bones
\* differ and whose proportion control meshes have one name
C17_Witness ==
    /\ DistinctNodes
    /\ TraversalReturned
    /\ Len(tree.kids) = 2
    /\ tree.kids[1].jt = "NECK_ROOT"
    /\ tree.kids[2].jt = "HEAD"
    /\ tree.kids[1].name = tree.kids[2].name
    /\ DistinctBoneNames
    /\ ~DistinctMeshNames

\* what holds of the code instead: on the trees whose objects carry distinct
\* names none of which ends in the suffix of a control, the bone names and
\* the mesh names are pairwise distinct
NamesUniqueWhenNamesDiffer ==
    (TraversalReturned /\ tree \notin NamesakeTrees) =>
       (DistinctBoneNames /\ DistinctMeshNames)

\* an object named as the control bone of another: two bones of one name
SuffixCollision ==
    /\ DistinctNodes
    /\ TraversalReturned
    /\ Len(tree.kids) = 2
    /\ tree.kids[2].name = tree.kids[1].name \o "_CTRL"
    /\ ~DistinctBoneNames

\* ------------------------------------------------------------------------
\* What the deferred actions create and what they look up by name
\* ------------------------------------------------------------------------
Thing(kind, name) == [kind |-> kind, name |-> name]

\* the template meshes of add_control_mesh_templates
TemplateMeshes(armature_name) ==
    { Thing("object", get_root_control_name(armature_name)),
      Thing("object", get_default_control_name(armature_name)),
      Thing("object", get_pole_target_control_name(armature_name)),
      Thing("object", get_default_ik_control_name(armature_name)) }

\* the groups of create_bone_groups
BoneGroups ==
    {"DEFAULT", "SPINE", "HEAD", "HAND", "ARM", "LEG", "FEET", "CHAIN"}

\* what the static method behind an action adds to bpy.data
Creates(act) ==
    CASE act.fn = "add_control_mesh_templates" -> TemplateMeshes(act.arm)
      [] act.fn = "create_proportion_control_shape" ->
            {Thing("object", act.mesh)}
      [] act.fn = "create_bone_groups" ->
            {Thing("group", g) : g \in BoneGroups}
      [] act.fn = "create_collections" ->
            LET self == [armature_object_name |-> act.arm]
            IN { Thing("collection", get_main_collection_name(self)),
                 Thing("collection", get_control_mesh_collection_name(self)),
                 Thing("collection", get_mesh_object_collection_name(self)) }
      [] OTHER -> {}

\* the constraints, whose target field is the bone they take as subtarget
Constraints ==
    {"create_ik_constraint", "create_rotation_constraint",
     "create_location_constraint", "create_shoulder_constraint",
     "add_rotation_constraint", "create_copy_location_constraint"}

\* what the static method behind an action takes from bpy.data by name
LooksUp(act) ==
    (IF act.arm # None /\ act.fn # "add_control_mesh_templates"
                       /\ act.fn # "create_proportion_control_shape"
     THEN {Thing("armature", act.arm)} ELSE {})
    \cup (IF act.bone # None THEN {Thing("bone", act.bone)} ELSE {})
    \cup (IF act.fn \in Constraints THEN {Thing("bone", act.target)} ELSE {})
    \cup (IF act.pole # None THEN {Thing("bone", act.pole)} ELSE {})
    \cup (IF act.fn = "add_bone_to_group"
          THEN {Thing("group", act.target)} ELSE {})
    \cup (IF act.coll # None THEN {Thing("collection", act.coll)} ELSE {})
    \cup (IF act.mesh # None /\ act.fn # "create_proportion_control_shape"
          THEN {Thing("object", act.mesh)} ELSE {})
    \cup (CASE act.fn = "hide_template_meshes" -> TemplateMeshes(act.arm)
            [] act.fn = "attach_root_shape" ->
                  {Thing("object", get_root_control_name(act.arm))}
            [] act.fn \in {"attach_ring_shape", "create_shoulder_constraint"}
                  -> {Thing("object", get_default_control_name(act.arm))}
            [] act.fn = "attach_shape_to_control" /\ act.mesh = None ->
                  {Thing("object", get_default_control_name(act.arm))}
            [] act.fn = "attach_pole_target_shape" ->
                  {Thing("object", get_pole_target_control_name(act.arm))}
            [] act.fn = "create_ik_constraint" ->
                  {Thing("object", get_default_ik_control_name(act.arm))}
            [] OTHER -> {})

\* what exists when the first loop starts: the bones of the traversal, the
\* objects of the tree and the armature, renamed before the first loop
Given ==
    {Thing("bone", bones[k].name) : k \in 1..Len(bones)}
    \cup {Thing("object", get_object_name(NodeAt(tree, p))) :
             p \in NodePaths(tree, <<>>)}
    \cup (IF armature.exists
          THEN {Thing("armature", "Armature_" \o tree.name)} ELSE {})

\* what the actions executed before the k-th one created
CreatedBefore(k) == UNION {Creates(executed[j].act) : j \in 1..(k - 1)}

\* C18: no deferred action depends on something created later: when a
\* deferred action executes, every bone, mesh, bone group, collection and
\* armature name it looks up has already been created, by the traversal or
\* by an action executed before it.
C18_NothingLookedUpBeforeCreated ==
    executed # <<>> =>
       LooksUp(executed[Len(executed)].act)
          \subseteq (Given \cup CreatedBefore(Len(executed)))

\* C18: the pass is over, a spine root's control took the proportion mesh an
\* earlier action created and a bone joined a group created before
C18_Witness ==
    /\ pc = "done"
    /\ \E k \in 1..Len(executed) :
          /\ executed[k].act.fn = "attach_shape_to_control"
          /\ executed[k].act.mesh # None
          /\ Thing("object", executed[k].act.mesh) \in CreatedBefore(k)
          /\ Thing("object", executed[k].act.mesh) \notin Given
    /\ \E k \in 1..Len(executed) :
          /\ executed[k].act.fn = "add_bone_to_group"
          /\ Thing("group", executed[k].act.target) \in CreatedBefore(k)

\* the axes on which the vertex list has no extent
FlatAxes ==
    {a \in 1..3 : amin(Column(vertex_array, a)) = amax(Column(vertex_array, a))}

UnitCube == get_unit_cube("control").vertex_list

\* C19: scale_to_boxman applied to the unit cube maps, on each axis
\* independently, every vertex coordinate 0 to the minimum and every
\* coordinate 1 to the maximum of the target vertex list's coordinates on
\* that axis, exactly.
C19_CubeCornersOnBounds ==
    (pc = "scaled" /\ vertex_array # <<>>) =>
       /\ error = NoErr
       /\ Len(control.vertex_list) = Len(UnitCube)
       /\ \A i \in 1..Len(UnitCube) : \A a \in 1..3 :
             control.vertex_list[i][a] =
                IF UnitCube[i][a] = 0 THEN amin(Column(vertex_array, a))
                ELSE amax(Column(vertex_array, a))

\* C19: a list with extent on every axis, whose box has its first corner at
\* the minima and its last at the maxima
C19_Witness ==
    /\ pc = "scaled"
    /\ Len(vertex_array) = 2
    /\ FlatAxes = {}
    /\ vertex_array[1][1] > vertex_array[2][1]
    /\ vertex_array[1][2] < vertex_array[2][2]
    /\ control.vertex_list[1] = <<vertex_array[2][1], vertex_array[1][2],
                                  amin(Column(vertex_array, 3))>>
    /\ control.vertex_list[8] = <<vertex_array[1][1], vertex_array[2][2],
                                  amax(Column(vertex_array, 3))>>

\* C20: scale_to_boxman raises an error, and produces no scaled shape, when
\* the vertex list has zero extent on any axis.
C20_FlatListRejected ==
    (pc = "scaled" /\ vertex_array # <<>> /\ FlatAxes # {}) =>
       /\ error # NoErr
       /\ control.vertex_list = UnitCube

\* C20: a list flat on the first axis only, scaled without error into a box
\* that is flat on that axis
C20_Witness ==
    /\ pc = "scaled"
    /\ vertex_array # <<>>
    /\ FlatAxes = {1}
    /\ error = NoErr
    /\ control.vertex_list # UnitCube
    /\ Cardinality(Column(control.vertex_list, 1)) = 1
    /\ Cardinality(Column(control.vertex_list, 2)) = 2

\* C21: all riggers of one pass share one synthesis context: every rigger
\* created during the traversal, by the factory or directly by an accessory,
\* has the armature name and the absolute_root_rigger of the root rigger and
\* holds the root rigger's four queues, so every action a rigger appends is
\* in the queues auto_rig drains (an accessory's link and unlink among them).
C21_OneSharedContext ==
    /\ \A k \in 1..Len(riggers) :
          /\ riggers[k].armature_object_name = riggers[1].armature_object_name
          /\ riggers[k].absolute_root_rigger = riggers[1].path
          /\ riggers[k].fixture = riggers[1].fixture
    /\ TraversalReturned =>
          \A p \in RiggedAs({"AccessoryRigger"}) :
             Cardinality({k \in 1..Len(queues["collection_assignments"]) :
                 queues["collection_assignments"][k].owner = p}) = 2

\* C21: riggers made by the factory and riggers made by an accessory, three
\* levels deep, in one context
C21_Witness ==
    /\ TraversalReturned
    /\ Len(riggers) >= 4
    /\ \E k \in 1..Len(riggers) :
          /\ ~riggers[k].byFactory
          /\ Len(riggers[k].path) = 3
          /\ riggers[k].fixture = <<>>
          /\ riggers[k].armature_object_name = "Armature_root"
    /\ \E k \in 2..Len(riggers) : riggers[k].byFactory

\* the changes of the host mode a pass may make, each at its place: into
\* edit mode by armature_add, out of it by the first mode_set, into pose mode
\* by the third, out of it by the fourth
ModeChange ==
    \/ mode = "OBJECT" /\ mode' = "EDIT" /\ pc = "rig" /\ modeSets = 0
    \/ mode = "EDIT" /\ mode' = "OBJECT" /\ modeSets = 0 /\ modeSets' = 1
    \/ mode = "OBJECT" /\ mode' = "POSE" /\ modeSets = 2 /\ modeSets' = 3
    \/ mode = "POSE" /\ mode' = "OBJECT" /\ modeSets = 3 /\ modeSets' = 4

\* C22: during a successful auto_rig the host mode goes EDIT, OBJECT, POSE,
\* OBJECT and never back: every change of mode is the next one of that
\* sequence, edit mode is not entered again once a mode_set has run, pose
\* mode is entered once, and the pass ends in object mode after the last
\* change.
C22_ModeSequence ==
    /\ [][mode' # mode => ModeChange]_vars
    /\ [][modeSets' >= modeSets]_vars
    /\ [](modeSets >= 1 => mode # "EDIT")
    /\ [](pc = "done" => mode = "OBJECT" /\ modeSets = 4)

\* C22: a pass that ran to its end, with actions run in pose mode and in
\* object mode before and after it
C22_Witness ==
    /\ pc = "done"
    /\ mode = "OBJECT"
    /\ \E i, j, k \in 1..Len(executed) :
          /\ i < j /\ j < k
          /\ executed[i].mode = "OBJECT"
          /\ executed[j].mode = "POSE"
          /\ executed[k].mode = "OBJECT"

\* the parenting actions appended for the object at path p that name its
\* mesh, its bone and the armature
ParentingsOf(p) ==
    {k \in 1..Len(queues["parenting"]) :
        /\ queues["parenting"][k].fn = "parent_object_to_rig"
        /\ queues["parenting"][k].owner = p
        /\ queues["parenting"][k].mesh = BoneNameAt(p)
        /\ queues["parenting"][k].bone = BoneNameAt(p)
        /\ queues["parenting"][k].arm = riggers[1].armature_object_name}

\* the classes whose rig() makes a bone and calls no queue_parent_object_to_rig
PoleTargetClasses == {"ElbowRigger", "KneeRigger"}

\* C23 as stated: once the traversal has returned, a node with a bone has
\* exactly one parenting action naming its mesh and its bone in the parenting
\* queue, and a node without a bone has none.
C23_OneParentingPerBone ==
    TraversalReturned =>
        \A p \in NodePaths(tree, <<>>) :
            Cardinality(ParentingsOf(p)) = (IF HasBone(p) THEN 1 ELSE 0)

\* C23: an elbow or a knee has a bone and no parenting action
C23_Witness ==
    /\ TraversalReturned
    /\ \E p \in RiggedAs(PoleTargetClasses) :
          HasBone(p) /\ ParentingsOf(p) = {}
    /\ \E p \in NodePaths(tree, <<>>) :
          Len(p) >= 2 /\ HasBone(p) /\ Cardinality(ParentingsOf(p)) = 1

\* what the code does: one parenting action for every node with a bone that
\* is not an elbow or a knee, none for any other node, and no parenting
\* action besides these
ParentingExceptPoleTargets ==
    TraversalReturned =>
        /\ \A p \in NodePaths(tree, <<>>) :
              Cardinality(ParentingsOf(p)) =
                 (IF HasBone(p) /\ p \notin RiggedAs(PoleTargetClasses)
                  THEN 1 ELSE 0)
        /\ \A k \in 1..Len(queues["parenting"]) :
              k \in ParentingsOf(queues["parenting"][k].owner)

\* the constraint a closure makes on the pose bone it names when it runs;
\* head_tail is kept in hundredths
NoConstraint ==
    [ kind |-> None, owner |-> None, subtarget |-> None, chain_count |-> 0,
      head_tail |-> 0, mix_mode |-> None, owner_space |-> None,
      target_space |-> None ]

\* IkControlRigger.create_ik_constraint
create_ik_constraint(act) ==
    [NoConstraint EXCEPT !.kind = "IK", !.owner = act.bone,
                         !.subtarget = act.target, !.chain_count = act.n]

\* FeetRigger.create_copy_location_constraint
create_copy_location_constraint(act) ==
    [NoConstraint EXCEPT !.kind = "COPY_LOCATION", !.owner = act.bone,
                         !.subtarget = act.target, !.head_tail = 100]

\* FeetRigger.add_rotation_constraint
add_rotation_constraint(act) ==
    [NoConstraint EXCEPT !.kind = "COPY_ROTATION", !.owner = act.bone,
                         !.subtarget = act.target, !.mix_mode = "ADD",
                         !.owner_space = "LOCAL", !.target_space = "LOCAL"]

\* the constraint-making actions a rigger appended to control_creation, in
\* the order of the queue
RECURSIVE ConstraintsFrom(_, _)
ConstraintsFrom(queue, p) ==
    IF queue = <<>> THEN <<>>
    ELSE (IF Head(queue).owner # p THEN <<>>
          ELSE IF Head(queue).fn = "create_ik_constraint"
          THEN <<create_ik_constraint(Head(queue))>>
          ELSE IF Head(queue).fn = "create_copy_location_constraint"
          THEN <<create_copy_location_constraint(Head(queue))>>
          ELSE IF Head(queue).fn = "add_rotation_constraint"
          THEN <<add_rotation_constraint(Head(queue))>>
          ELSE <<>>)
         \o ConstraintsFrom(Tail(queue), p)

\* the feet whose parent is a shin
FeetUnderShin ==
    {p \in RiggedAs({"FeetRigger"}) :
        Len(p) >= 1
        /\ NodeAt(tree, SubSeq(p, 1, Len(p) - 1)).jt = "LEG_SHIN"}

\* C24: a FOOT_ROOT under a shin enqueues in control_creation, in this order,
\* an IK constraint of chain length 2 on the shin bone targeting the foot's
\* IK control bone, a copy-location constraint owned by the foot bone
\* targeting the shin bone with head/tail factor 1.0, and an additive local
\* copy-rotation constraint owned by the foot bone targeting the IK control.
C24_FootConstraintsInOrder ==
    TraversalReturned =>
        \A p \in FeetUnderShin :
            LET foot == BoneNameAt(p)
                shin == BoneNameAt(SubSeq(p, 1, Len(p) - 1))
                ctrl == foot \o "_IK_CTRL"
            IN ConstraintsFrom(queues["control_creation"], p) =
                  << [NoConstraint EXCEPT !.kind = "IK", !.owner = shin,
                         !.subtarget = ctrl, !.chain_count = 2],
                     [NoConstraint EXCEPT !.kind = "COPY_LOCATION",
                         !.owner = foot, !.subtarget = shin,
                         !.head_tail = 100],
                     [NoConstraint EXCEPT !.kind = "COPY_ROTATION",
                         !.owner = foot, !.subtarget = ctrl,
                         !.mix_mode = "ADD", !.owner_space = "LOCAL",
                         !.target_space = "LOCAL"] >>

\* C24: a pass over a shin with a foot has returned, the foot has its bone
\* and its IK control bone, and its three constraints are enqueued
C24_Witness ==
    /\ TraversalReturned
    /\ \E p \in FeetUnderShin :
          /\ HasBone(p)
          /\ HasBoneNamed(BoneId(p, "ctrl"), BoneNameAt(p) \o "_IK_CTRL")
          /\ Len(ConstraintsFrom(queues["control_creation"], p)) = 3

ClassAt(p) ==
    (CHOOSE r \in {riggers[k] : k \in 1..Len(riggers)} : r.path = p).cls

\* the bone made for the object at path p
BoneAt(p) ==
    CHOOSE b \in {bones[k] : k \in 1..Len(bones)} : b.id = BoneId(p, "bone")

\* the family of a finger, toe, spine or neck rigger: the classes its rig()
\* tests its children against
FamilyOf(cls) ==
    IF cls \in FingerRiggerBase THEN FingerRiggerBase
    ELSE IF cls \in SpineRiggerBase THEN SpineRiggerBase
    ELSE NeckRiggerBase

\* the finger, toe, spine and neck riggers, root or section, whose object has
\* at least two children
FanningOut ==
    {p \in RiggedAs(FingerRiggerBase \cup SpineRiggerBase
                    \cup {"NeckSectionRigger", "NeckRootRigger"}) :
        Len(NodeAt(tree, p).kids) >= 2}

\* child i of p is the only child of p whose rigger is of p's family
OnlyOfFamily(p, i) ==
    {j \in 1..Len(NodeAt(tree, p).kids) :
        ClassAt(Append(p, j)) \in FamilyOf(ClassAt(p))} = {i}

\* C26: for a finger, toe, spine or neck node (root or section) with at least
\* two children, once the pass has rigged it every child bone is parented to
\* its bone, and a child bone has use_connect = TRUE if and only if that
\* child is the only child of the node's rigger family.
C26_OnlyFamilyChildConnected ==
    TraversalReturned =>
        \A p \in FanningOut :
            \A i \in 1..Len(NodeAt(tree, p).kids) :
                HasBone(Append(p, i)) =>
                    /\ BoneAt(Append(p, i)).parent = BoneId(p, "bone")
                    /\ BoneAt(Append(p, i)).use_connect = OnlyOfFamily(p, i)

\* C26: a node with one child of its family, connected, and another child
\* with a bone, not connected
C26_Witness ==
    /\ TraversalReturned
    /\ \E p \in FanningOut :
          \E i, j \in 1..Len(NodeAt(tree, p).kids) :
              /\ i # j
              /\ HasBone(Append(p, i)) /\ HasBone(Append(p, j))
              /\ OnlyOfFamily(p, i)
              /\ BoneAt(Append(p, i)).use_connect
              /\ ~BoneAt(Append(p, j)).use_connect

\* C26: a node with two children of its family, neither connected
C26_TwoOfFamily ==
    /\ TraversalReturned
    /\ \E p \in FanningOut :
          /\ \A i \in 1..Len(NodeAt(tree, p).kids) :
                /\ ClassAt(Append(p, i)) \in FamilyOf(ClassAt(p))
                /\ HasBone(Append(p, i))
                /\ ~BoneAt(Append(p, i)).use_connect

\* the ACCESSORY objects and the objects below one; the objects strictly
\* below one
InAccessory(p) ==
    \E k \in 1..Len(p) : NodeAt(tree, SubSeq(p, 1, k)).jt = "ACCESSORY"

BelowAccessory(p) ==
    \E k \in 1..(Len(p) - 1) : NodeAt(tree, SubSeq(p, 1, k)).jt = "ACCESSORY"

AccessoryPaths == {p \in NodePaths(tree, <<>>) : InAccessory(p)}

\* the actions the rigger of p appended to queue q, in the order of the queue
RECURSIVE OwnedIn(_, _)
OwnedIn(queue, p) ==
    IF queue = <<>> THEN <<>>
    ELSE (IF Head(queue).owner = p THEN <<Head(queue)>> ELSE <<>>)
         \o OwnedIn(Tail(queue), p)

\* C27: an ACCESSORY node is a dead end: no node of its subtree gets a bone or
\* a control bone, no rigger of the subtree appends anything to the
\* parenting, mesh_creation or control_creation queue, every rigger built in
\* the subtree is an AccessoryRigger and, below the ACCESSORY node, is built
\* without the factory and its compatibility matrix; once the traversal has
\* returned every node of a subtree that it reached has its rigger and
\* exactly two actions, the link of its mesh to the mesh collection and then
\* its unlink from the scene collection.
C27_AccessoryDeadEnd ==
    \A p \in AccessoryPaths :
        /\ \A k \in 1..Len(bones) : bones[k].id.o # p
        /\ \A q \in {"parenting", "mesh_creation", "control_creation"} :
              OwnedIn(queues[q], p) = <<>>
        /\ \A k \in 1..Len(riggers) :
              riggers[k].path = p =>
                 /\ riggers[k].cls = "AccessoryRigger"
                 /\ BelowAccessory(p) => ~riggers[k].byFactory
        /\ (TraversalReturned /\ p \in Visited(tree, <<>>, FALSE)) =>
              /\ p \in RiggerPaths
              /\ OwnedIn(queues["collection_assignments"], p) =
                    << [Act("link_mesh_to_collection", p) EXCEPT
                           !.coll = riggers[1].armature_object_name
                                       \o "_COLL_MESH",
                           !.mesh = BoneNameAt(p)],
                       [Act("unlink_mesh_to_collection", p) EXCEPT
                           !.coll = None, !.mesh = BoneNameAt(p)] >>

\* C27: the traversal has returned from a tree with two levels below an
\* ACCESSORY node, all of them handled as accessories, while an object
\* outside the subtree has its bone
C27_Witness ==
    /\ TraversalReturned
    /\ \E p \in AccessoryPaths :
          /\ Len(p) = 4
          /\ BelowAccessory(SubSeq(p, 1, 3))
          /\ NodeAt(tree, p).jt # "ACCESSORY"
          /\ p \in RiggedAs({"AccessoryRigger"})
          /\ HasBone(SubSeq(p, 1, 1))
          /\ Len(OwnedIn(queues["collection_assignments"], p)) = 2

\* the place of the rigger of p in the order of construction
Pos(p) == CHOOSE k \in 1..Len(riggers) : riggers[k].path = p

\* the radius and shin riggers, the child type each requires and the child
\* type that brings the pole target
Limbs == RiggedAs({"RadiusRigger", "ShinRigger"})

MandatoryOf(p) ==
    IF ClassAt(p) = "RadiusRigger" THEN "HAND_ROOT" ELSE "FOOT_ROOT"

PoleOf(p) == IF ClassAt(p) = "RadiusRigger" THEN "ARM_ELBOW" ELSE "LEG_KNEE"

\* offset_sign of a KneeRigger
KneeOffsetSign == 1

\* the offset sign of the elbow (knee) of p
PoleOffsetOf(p) ==
    IF ClassAt(p) = "RadiusRigger" THEN ElbowOffsetSign ELSE KneeOffsetSign

\* the elbows (knees) among the children of p
PoleChildren(p) ==
    {j \in 1..Len(NodeAt(tree, p).kids) :
        NodeAt(tree, p).kids[j].jt = PoleOf(p)}

\* the last of them in the children list
LastPoleChild(p) ==
    CHOOSE j \in PoleChildren(p) : \A k \in PoleChildren(p) : k <= j

\* rig() of the child at c of the rigger at p has returned and the parent
\* has taken its bone
RiggedUnder(c, p) ==
    /\ c \in RiggerPaths
    /\ Len(OwnedIn(queues["collection_assignments"], c)) >= 2
    /\ HasBone(c) => /\ BoneAt(c).parent = BoneId(p, "bone")
                     /\ ~BoneAt(c).use_connect

\* C28: whatever the order of the children of a radius (shin), when the
\* rigger of the hand (foot) is created every other child, the elbow (knee)
\* among them, has been created and rigged, and the hand (foot) enters rig()
\* with the pole target bone and the offset sign of the last elbow (knee) of
\* the children list, or with none and 0 when there is no elbow (knee).
C28_OthersBeforeMandatory ==
    \A p \in Limbs :
        \A i \in 1..Len(NodeAt(tree, p).kids) :
            (NodeAt(tree, p).kids[i].jt = MandatoryOf(p)
             /\ Append(p, i) \in RiggerPaths) =>
                /\ \A j \in 1..Len(NodeAt(tree, p).kids) \ {i} :
                      /\ RiggedUnder(Append(p, j), p)
                      /\ Pos(Append(p, j)) < Pos(Append(p, i))
                /\ IF PoleChildren(p) = {}
                   THEN /\ riggers[Pos(Append(p, i))].pole_target_bone = None
                        /\ riggers[Pos(Append(p, i))].pole_target_offset = 0
                   ELSE LET e == Append(p, LastPoleChild(p))
                        IN /\ riggers[Pos(Append(p, i))].pole_target_bone =
                                 BoneNameAt(e) \o "_POLE_CTRL"
                           /\ HasBoneNamed(BoneId(e, "ctrl"),
                                           BoneNameAt(e) \o "_POLE_CTRL")
                           /\ riggers[Pos(Append(p, i))].pole_target_offset
                                 = PoleOffsetOf(p)

\* C28: the hand (foot) is the first child of the list, elbows (knees) come
\* after it, and the hand (foot) was handed the pole target of the last one
C28_Witness ==
    \E p \in Limbs :
        /\ NodeAt(tree, p).kids # <<>>
        /\ NodeAt(tree, p).kids[1].jt = MandatoryOf(p)
        /\ Append(p, 1) \in RiggerPaths
        /\ Cardinality(PoleChildren(p)) = 2
        /\ riggers[Pos(Append(p, 1))].pole_target_bone =
              BoneNameAt(Append(p, LastPoleChild(p))) \o "_POLE_CTRL"
        /\ Pos(Append(p, 2)) < Pos(Append(p, 1))

\* the hands whose IK control bone has been made, and that bone
HandsWithControl ==
    {p \in RiggedAs({"HandRootRigger"}) :
        \E k \in 1..Len(bones) : bones[k].id = BoneId(p, "ctrl")}

ControlBoneAt(p) ==
    CHOOSE b \in {bones[k] : k \in 1..Len(bones)} : b.id = BoneId(p, "ctrl")

\* C29 as stated: the IK control bone created by a HAND_ROOT node has its
\* head at the tail of the hand bone.
C29_HandControlOnTail ==
    \A p \in HandsWithControl : ControlBoneAt(p).head = "tail"

\* C29 as the code has it: the IK control bone created by a HAND_ROOT node
\* has its head at the head of the hand bone, which is at the location of the
\* hand object; only the IK control of a CHAIN_SEGMENT is put on the tail.
C29_HandControlOnHead ==
    /\ \A p \in HandsWithControl :
          /\ ControlBoneAt(p).head = "head"
          /\ ControlBoneAt(p).name = BoneNameAt(p) \o "_IK_CTRL"
          /\ BoneAt(p).head = "location"
    /\ \A k \in 1..Len(bones) :
          (bones[k].id.r = "ctrl" /\ bones[k].head = "tail") =>
              bones[k].id.o \in RiggedAs({"ChainSegmentRigger"})

\* C29: a hand under a radius has its bone and its IK control bone, and the
\* traversal has returned
C29_Witness ==
    /\ TraversalReturned
    /\ \E p \in HandsWithControl :
          /\ Len(p) >= 1
          /\ NodeAt(tree, SubSeq(p, 1, Len(p) - 1)).jt = "ARM_RADIUS"
          /\ HasBone(p)
          /\ ControlBoneAt(p).head = "head"

\* the nearest spine rigger at or above p, or the root rigger
RECURSIVE NearestScope(_)
NearestScope(p) ==
    IF p = <<>> \/ ClassAt(p) \in SpineRiggerBase THEN p
    ELSE NearestScope(SubSeq(p, 1, Len(p) - 1))

\* the riggers that parent their control bone to the bone of their local
\* control root
LocallyParented == {"ElbowRigger", "HandRootRigger", "ChainSegmentRigger"}

\* C30: the local_control_root of a rigger is the rigger itself when it is
\* the root rigger or a spine rigger, and the local_control_root of its
\* parent otherwise, that is the nearest spine rigger at or above it or else
\* the root rigger; and when a rigger parents its control bone to the bone of
\* its local control root, that bone exists.
C30_LocalControlRoot ==
    /\ \A k \in 1..Len(riggers) :
          /\ riggers[k].local_control_root =
                IF riggers[k].path = <<>> \/ riggers[k].cls \in SpineRiggerBase
                THEN riggers[k].path
                ELSE riggers[Pos(SubSeq(riggers[k].path, 1,
                                        Len(riggers[k].path) - 1))
                            ].local_control_root
          /\ riggers[k].local_control_root = NearestScope(riggers[k].path)
    /\ \A k \in 1..Len(bones) :
          (/\ bones[k].id.r = "ctrl"
           /\ ClassAt(bones[k].id.o) \in LocallyParented
           /\ bones[k].parent # NoBone) =>
              /\ bones[k].parent =
                    BoneId(riggers[Pos(bones[k].id.o)].local_control_root,
                           "bone")
              /\ \E j \in 1..(k - 1) : bones[j].id = bones[k].parent

\* C30: below a spine section that lies below a spine root, a hand and an
\* elbow have parented their control bones to the bone of the section
C30_Witness ==
    \E h \in RiggedAs({"HandRootRigger"}), e \in RiggedAs({"ElbowRigger"}) :
        /\ Len(h) = 4
        /\ ClassAt(SubSeq(h, 1, 2)) = "SpineSectionRigger"
        /\ ClassAt(SubSeq(h, 1, 1)) = "SpineRootRigger"
        /\ riggers[Pos(h)].local_control_root = SubSeq(h, 1, 2)
        /\ riggers[Pos(e)].local_control_root = SubSeq(h, 1, 2)
        /\ \E k \in 1..Len(bones) :
              /\ bones[k].id = BoneId(h, "ctrl")
              /\ bones[k].parent = BoneId(SubSeq(h, 1, 2), "bone")
        /\ \E k \in 1..Len(bones) :
              /\ bones[k].id = BoneId(e, "ctrl")
              /\ bones[k].parent = BoneId(SubSeq(h, 1, 2), "bone")


\* ---------------------------------------------------------------------
\* C31
\* ---------------------------------------------------------------------
\* the riggers of the arm chain and of the leg chain that create a control
ArmControls == {"HandRootRigger", "ElbowRigger"}

LegControls == {"FeetRigger", "KneeRigger"}

\* the bone the control bone of the rigger at p has been parented to
ControlParentAt(p) == ControlBoneAt(p).parent

\* the control bones of the riggers of the given classes that have been
\* parented
ParentedControls(classes) ==
    {p \in RiggedAs(classes) :
        /\ \E k \in 1..Len(bones) : bones[k].id = BoneId(p, "ctrl")
        /\ ControlParentAt(p) # NoBone}

\* C31 as stated: the IK control of a hand, the pole control of an elbow,
\* the IK control of a foot and the pole control of a knee are all parented
\* to the bone of the local control root of their rigger.
C31_LegMirrorsArm ==
    \A p \in ParentedControls(ArmControls \cup LegControls) :
        ControlParentAt(p) =
            BoneId(riggers[Pos(p)].local_control_root, "bone")

\* C31: the control bones of the arm chain (IK control of a hand, pole
\* control of an elbow) are parented to the bone of the local control root,
\* and the control bones of the leg chain (IK control of a foot, pole control
\* of a knee) are parented to the bone of the absolute root.
C31_LegControlsOnAbsoluteRoot ==
    /\ \A p \in ParentedControls(ArmControls) :
          ControlParentAt(p) =
              BoneId(riggers[Pos(p)].local_control_root, "bone")
    /\ \A p \in ParentedControls(LegControls) :
          ControlParentAt(p) =
              BoneId(riggers[Pos(p)].absolute_root_rigger, "bone")

\* C31: below a spine section, a knee and a foot have parented their control
\* bones to the bone of the root although their local control root is the
\* section
C31_Witness ==
    \E f \in ParentedControls({"FeetRigger"}),
       k \in ParentedControls({"KneeRigger"}) :
        /\ riggers[Pos(f)].local_control_root # <<>>
        /\ riggers[Pos(k)].local_control_root = riggers[Pos(f)].local_control_root
        /\ ClassAt(riggers[Pos(f)].local_control_root) = "SpineSectionRigger"
        /\ ControlParentAt(f) = BoneId(<<>>, "bone")
        /\ ControlParentAt(k) = BoneId(<<>>, "bone")


\* ---------------------------------------------------------------------
\* C32
\* ---------------------------------------------------------------------
\* the path of the parent of the node at p
ParentPath(p) == SubSeq(p, 1, Len(p) - 1)

\* the class that is meant to stand above a limb rigger
UpperOf(p) ==
    IF ClassAt(p) = "RadiusRigger" THEN "HumerusRigger" ELSE "ThighRigger"

\* the limbs that have a bone
LimbsWithBone == {p \in Limbs : HasBone(p)}

\* the IK constraints of chain count 2 that have been appended for the bone
\* of the limb at p
LimbIk(p) ==
    {k \in ActIndexes("create_ik_constraint") :
        /\ ParentPath(queues["control_creation"][k].owner) = p
        /\ queues["control_creation"][k].bone = BoneNameAt(p)
        /\ queues["control_creation"][k].n = 2}

\* C32: every ARM_RADIUS node that is rigged has an ARM_HUMERUS parent and
\* every LEG_SHIN node a LEG_THIGH parent, so that the IK constraint of chain
\* count 2 on the bone of a radius (shin) spans the bones of the radius and
\* the humerus (the shin and the thigh): the parent of that bone is the bone
\* of a humerus (thigh).
C32_LimbUnderUpperLimb ==
    \A p \in LimbsWithBone :
        /\ ClassAt(ParentPath(p)) = UpperOf(p)
        /\ (LimbIk(p) # {} /\ BoneAt(p).parent # NoBone) =>
              /\ BoneAt(p).parent.r = "bone"
              /\ ClassAt(BoneAt(p).parent.o) = UpperOf(p)

\* C32: a pass has returned in which a radius stands directly below the
\* root, its hand has appended the IK constraint of chain count 2 for the
\* bone of the radius, and the parent of that bone is the bone of the root
C32_Witness ==
    /\ TraversalReturned
    /\ \E p \in LimbsWithBone :
          /\ ClassAt(p) = "RadiusRigger"
          /\ ParentPath(p) = <<>>
          /\ LimbIk(p) # {}
          /\ BoneAt(p).parent = BoneId(<<>>, "bone")

\* what does hold of the limbs: a hand hangs from a radius and a foot from
\* a shin, and the IK constraint they append is on the bone of that limb
\* with chain count 2
C32_IkOnLimbBone ==
    \A k \in ActIndexes("create_ik_constraint") :
        LET a == queues["control_creation"][k]
        IN ClassAt(a.owner) \in {"HandRootRigger", "FeetRigger"} =>
              /\ ParentPath(a.owner) \in Limbs
              /\ ClassAt(a.owner) = "HandRootRigger" <=>
                    ClassAt(ParentPath(a.owner)) = "RadiusRigger"
              /\ a.bone = BoneNameAt(ParentPath(a.owner))
              /\ a.n = 2


\* ---------------------------------------------------------------------
\* C33
\* ---------------------------------------------------------------------
\* the pass has failed in the traversal: the factory refused a child or a
\* verify_chain found the mandatory child missing
TraversalFailed == error.cls = "RiggerException"

\* the nodes the factory refuses under their parent
ForbiddenPaths ==
    {p \in NodePaths(tree, <<>>) \ {<<>>} :
        /\ NodeAt(tree, ParentPath(p)).jt \in DOMAIN forbidden_matrix
        /\ NodeAt(tree, p).jt
              \in forbidden_matrix[NodeAt(tree, ParentPath(p)).jt]}

\* nothing has been made for the node at p: no bone and no deferred action
NothingMadeFor(p) ==
    /\ \A k \in 1..Len(bones) : bones[k].id.o # p
    /\ \A q \in DOMAIN queues : OwnedIn(queues[q], p) = <<>>

\* the node the traversal failed at, when a verify_chain raised: the node of
\* the rigger constructed last
FailedAt == riggers[Len(riggers)].path

\* the bones that were made, in the order they were made in
Made(bs) == [k \in 1..Len(bs) |-> [id |-> bs[k].id, name |-> bs[k].name]]

\* the sequence s goes on as the sequence t
StaysIn(s, t) == Len(t) >= Len(s) /\ SubSeq(t, 1, Len(s)) = s

\* C33: there is no rollback on a traversal failure.  The node the factory
\* refuses has no rigger, no bone and no deferred action; the node whose
\* verify_chain raises has no bone and no deferred action; no bone and no
\* deferred action of the nodes visited before is ever taken away, neither by
\* the raise nor after it; and no deferred action is executed in a pass
\* whose traversal failed.
C33_NoRollback ==
    /\ [](\A p \in ForbiddenPaths :
             p \notin RiggerPaths /\ NothingMadeFor(p))
    /\ []((TraversalFailed /\ error.why = "IncompatibleChain") =>
             \E p \in ForbiddenPaths :
                 /\ ParentPath(p) \in RiggerPaths
                 /\ ClassAt(ParentPath(p)) = error.at)
    /\ []((TraversalFailed /\ error.why # "IncompatibleChain") =>
             /\ ClassAt(FailedAt) = error.at
             /\ NothingMadeFor(FailedAt))
    /\ [](TraversalFailed =>
             /\ executed = <<>>
             /\ phase = 0
             /\ pc \in {"except", "raised"})
    /\ [][/\ StaysIn(Made(bones), Made(bones'))
          /\ \A q \in DOMAIN queues : StaysIn(queues[q], queues'[q])]_vars
    /\ [][TraversalFailed =>
             bones' = bones /\ queues' = queues /\ executed' = executed]_vars

\* C33: a verify_chain has raised below nodes that made bones and appended
\* actions; the error has been reported, the bones and the actions are
\* still there and no action was executed
C33_Witness ==
    /\ pc = "raised"
    /\ raised.cls = "RiggerException"
    /\ raised.why # "IncompatibleChain"
    /\ Len(FailedAt) >= 2
    /\ HasBone(<<>>)
    /\ HasBone(ParentPath(FailedAt))
    /\ OwnedIn(queues["mesh_creation"], <<>>) # <<>>
    /\ executed = <<>>

\* C33: the factory has refused a child of a node that has its bone, and the
\* bone is still there when the error has been reported
C33_RefusedChild ==
    /\ pc = "raised"
    /\ raised.cls = "RiggerException"
    /\ raised.why = "IncompatibleChain"
    /\ \E p \in ForbiddenPaths :
          /\ Len(p) >= 2
          /\ HasBone(ParentPath(p))
          /\ NothingMadeFor(p)


\* ---------------------------------------------------------------------
\* C34
\* ---------------------------------------------------------------------
\* the accessories the factory made a rigger for: the ACCESSORY children of
\* a node that is not itself passed over as an accessory
FactoryAccessories ==
    {p \in RiggedAs({"AccessoryRigger"}) : riggers[Pos(p)].byFactory}

\* the parent of the boneless child at p failed on the bone the child does
\* not have
FailedOnBonelessChild(p) ==
    /\ error.cls = "AttributeError"
    /\ error.at = ClassAt(ParentPath(p))
    /\ riggers[Len(riggers)].path \in AccessoryPaths
    /\ StaysIn(p, riggers[Len(riggers)].path)

\* C34: an ACCESSORY child, which makes no bone, is tolerated under every
\* parent the compatibility matrix allows it under, OBJECT_ROOT included: it
\* gets no bone and the traversal does not fail on it.
C34_BonelessChildTolerated ==
    \A p \in FactoryAccessories :
        /\ ~HasBone(p)
        /\ ~FailedOnBonelessChild(p)

\* C34: an ACCESSORY directly below OBJECT_ROOT was made by the factory, made
\* no bone, and the pass has ended in the AttributeError of the root rigger
C34_Witness ==
    /\ pc = "raised"
    /\ raised.cls = "AttributeError"
    /\ raised.at = "RootRigger"
    /\ \E p \in FactoryAccessories :
          /\ Len(p) = 1
          /\ "ACCESSORY" \notin forbidden_matrix["OBJECT_ROOT"]
          /\ ~HasBone(p)
          /\ FailedOnBonelessChild(p)

\* what does hold of the boneless children: only the root rigger fails on
\* one, and no accessory has a bone
C34_ToleratedBelowTheRoot ==
    /\ error.cls = "AttributeError" => error.at = "RootRigger"
    /\ \A p \in FactoryAccessories :
          /\ ~HasBone(p)
          /\ Len(p) >= 2 => ~FailedOnBonelessChild(p)

\* an ACCESSORY below a DEFAULT node has been passed over and the pass has
\* returned
C34_ToleratedSomewhere ==
    /\ TraversalReturned
    /\ \E p \in FactoryAccessories :
          Len(p) >= 2 /\ ClassAt(ParentPath(p)) = "DefaultRigger"


\* ---------------------------------------------------------------------
\* C35
\* ---------------------------------------------------------------------
\* the joint types a rigger of an IK terminus may hang from
TerminusParents ==
    [ HAND_ROOT     |-> {"ARM_RADIUS"},
      FOOT_ROOT     |-> {"LEG_SHIN"},
      CHAIN_SEGMENT |-> {"CHAIN_ROOT", "CHAIN_SEGMENT"} ]

\* the riggers made by the factory for a child node
FactoryChildren ==
    {k \in 1..Len(riggers) : riggers[k].byFactory /\ riggers[k].path # <<>>}

\* the rigger of the parent of the rigger k
ParentOf(k) == riggers[Pos(ParentPath(riggers[k].path))]

\* C35: in every pass, a HAND_ROOT rigger made by the factory has an
\* ARM_RADIUS parent, a FOOT_ROOT rigger a LEG_SHIN parent and a
\* CHAIN_SEGMENT rigger a CHAIN_ROOT or CHAIN_SEGMENT parent; the
\* chain_length a chain segment is rigged with is that of its parent, plus
\* one below another segment, and is at least 2; and no rigger of an
\* OBJECT_ROOT is made for a child.
C35_TerminusParents ==
    \A k \in FactoryChildren :
        /\ riggers[k].jt \in DOMAIN TerminusParents =>
              /\ ParentOf(k).jt \in TerminusParents[riggers[k].jt]
              /\ ParentOf(k).byFactory
              /\ ParentOf(k).cls = type_dictionary[ParentOf(k).jt]
        /\ riggers[k].cls = "ChainSegmentRigger" =>
              /\ riggers[k].chain_length =
                    ParentOf(k).chain_length
                    + (IF ParentOf(k).cls = "ChainSegmentRigger" THEN 1 ELSE 0)
              /\ riggers[k].chain_length >= 2
        /\ riggers[k].jt # "OBJECT_ROOT"
        /\ riggers[k].cls # "RootRigger"

\* C35: a chain segment below a chain segment below a chain root has been
\* rigged with chain_length 3, and the pass has returned
C35_Witness ==
    /\ TraversalReturned
    /\ \E k \in FactoryChildren :
          /\ riggers[k].cls = "ChainSegmentRigger"
          /\ ParentOf(k).cls = "ChainSegmentRigger"
          /\ riggers[k].chain_length = 3
          /\ HasBone(riggers[k].path)

\* C35: the factory has refused a hand below a node that is not a radius
C35_HandRefused ==
    /\ error.cls = "RiggerException"
    /\ error.why = "IncompatibleChain"
    /\ \E p \in ForbiddenPaths :
          /\ NodeAt(tree, p).jt = "HAND_ROOT"
          /\ ParentPath(p) \in RiggerPaths
          /\ riggers[Pos(ParentPath(p))].byFactory
          /\ p \notin RiggerPaths


\* ---------------------------------------------------------------------
\* C36
\* ---------------------------------------------------------------------
\* the largest index of a bone layer
MaxLayerIndex == 31

\* RiggerBase.add_bone_to_layers: the error it raises for the layer indexes
\* of the action, or NoErr
add_bone_to_layers(act) ==
    IF \E i \in 1..Len(act.layers) : act.layers[i] > MaxLayerIndex
    THEN Err("ValueError", "Layer index is over the limit!", None)
    ELSE NoErr

\* the appended actions that add a bone to layers
LayerActs ==
    {queues["control_creation"][k] : k \in ActIndexes("add_bone_to_layers")}

\* the layers an action names
LayersOf(act) == {act.layers[i] : i \in 1..Len(act.layers)}

\* the bone b has a layer action of the rigger that made it, naming b and
\* holding the global layer
InGlobalLayer(b) ==
    \E a \in LayerActs :
        /\ a.owner = b.id.o
        /\ a.bone = b.name
        /\ GLOBAL_LAYER_INDEX \in LayersOf(a)

\* C36: every layer index of every appended add-bone-to-layers action lies
\* in 0..31, so that add_bone_to_layers raises for none of them; and when the
\* traversal has returned, every bone made in the pass (node bone, control,
\* IK and pole bone) has a layer action that holds the global layer 31.
C36_LayersInRange ==
    /\ \A a \in LayerActs :
          /\ LayersOf(a) \subseteq 0..MaxLayerIndex
          /\ add_bone_to_layers(a) = NoErr
          /\ a.layers # <<>>
    /\ error.why # "Layer index is over the limit!"
    /\ TraversalReturned => \A k \in 1..Len(bones) : InGlobalLayer(bones[k])

\* C36: a pass has returned that made a node bone, an IK control bone and a
\* pole control bone, each with its layer action
C36_Witness ==
    /\ TraversalReturned
    /\ \E k \in 1..Len(bones) :
          bones[k].id.r = "ctrl" /\ ClassAt(bones[k].id.o) = "HandRootRigger"
    /\ \E k \in 1..Len(bones) :
          bones[k].id.r = "ctrl" /\ ClassAt(bones[k].id.o) = "ElbowRigger"
    /\ \A k \in 1..Len(bones) : InGlobalLayer(bones[k])
    /\ Cardinality(LayerActs) >= 5


\* ---------------------------------------------------------------------
\* C37
\* ---------------------------------------------------------------------
\* the appended IK constraints that name a pole target
PoledIk ==
    {queues["control_creation"][k] :
        k \in {j \in ActIndexes("create_ik_constraint") :
                  queues["control_creation"][j].pole # None}}

\* the riggers that read the orientation table: those with angle_orient
UsesOrientationTable == {"HandRootRigger"}

\* C37: over all trees, the pole angle of an IK constraint appended with a
\* pole target is 180 for a hand of orientation L or C, 75 for a hand of
\* orientation R and 0 for a foot, and no other rigger appends one; the
\* entries of the orientation table for offset sign +1 are never selected,
\* as a rigger that reads the table is handed the offset sign of an elbow,
\* -1, or none (0), for which it raises.
C37_PoleAngles ==
    /\ \A a \in PoledIk :
          /\ ClassAt(a.owner) \in {"HandRootRigger", "FeetRigger"}
          /\ ClassAt(a.owner) = "HandRootRigger" =>
                /\ a.angle = IF NodeAt(tree, a.owner).orient = "R"
                             THEN 75 ELSE 180
                /\ a.angle = PoleAngle[ElbowOffsetSign,
                                       NodeAt(tree, a.owner).orient]
                /\ riggers[Pos(a.owner)].pole_target_offset = ElbowOffsetSign
                /\ \E e \in RiggedAs({"ElbowRigger"}) :
                      /\ ParentPath(e) = ParentPath(a.owner)
                      /\ a.pole = BoneNameAt(e) \o "_POLE_CTRL"
          /\ ClassAt(a.owner) = "FeetRigger" => a.angle = 0
    /\ \A k \in 1..Len(riggers) :
          riggers[k].cls \in UsesOrientationTable =>
              /\ riggers[k].pole_target_offset \in {ElbowOffsetSign, 0}
              /\ riggers[k].pole_target_offset = 0 =>
                    ActsOwnedBy(riggers[k].path, "create_ik_constraint") = {}

\* C37: a hand of orientation R below a radius with an elbow has appended
\* its IK constraint with the pole target of the elbow and the angle 75
C37_Witness ==
    \E a \in PoledIk :
        /\ ClassAt(a.owner) = "HandRootRigger"
        /\ NodeAt(tree, a.owner).orient = "R"
        /\ a.angle = 75
        /\ riggers[Pos(a.owner)].pole_target_offset = -1

\* C37: a foot below a shin with a knee has appended its IK constraint with
\* the pole target of the knee, whose offset sign is +1, and the angle 0
C37_FootWithKnee ==
    \E a \in PoledIk :
        /\ ClassAt(a.owner) = "FeetRigger"
        /\ riggers[Pos(a.owner)].pole_target_offset = KneeOffsetSign
        /\ a.angle = 0


\* ---------------------------------------------------------------------
\* C38
\* ---------------------------------------------------------------------
\* the node at d lies below the node at p
Below(d, p) == Len(d) > Len(p) /\ SubSeq(d, 1, Len(p)) = p

\* the parenting queue
Parentings == queues["parenting"]

\* the items of the parenting queue that have been executed, in the order
\* they were executed in
ParentingsRun == SelectSeq(executed, LAMBDA e : e.q = "parenting")

\* C38: the parenting queue is filled in post-order.  The parenting action
\* of a node stands behind the parenting actions of all the nodes below it;
\* once the traversal has returned the action of the root is the last entry
\* of the queue; and the queue is executed from its first entry to its last,
\* so that the action of the root is executed last in that phase.
C38_ParentingPostOrder ==
    /\ \A i, j \in 1..Len(Parentings) :
          Below(Parentings[j].owner, Parentings[i].owner) => j < i
    /\ TraversalReturned =>
          /\ Parentings # <<>>
          /\ ParentingsOf(<<>>) = {Len(Parentings)}
    /\ \A k \in 1..Len(ParentingsRun) :
          /\ ParentingsRun[k].i = k
          /\ ParentingsRun[k].act = Parentings[k]
    /\ \A k \in 1..Len(ParentingsRun) :
          ParentingsRun[k].act.owner = <<>> => k = Len(Parentings)

\* C38: the parenting queue of a pass over a tree three levels deep has been
\* executed to its end: the action of a node two levels down ran before
\* that of its parent, and the action of the root ran last
C38_Witness ==
    /\ Len(ParentingsRun) = Len(Parentings)
    /\ Len(Parentings) >= 3
    /\ ParentingsRun[Len(ParentingsRun)].act.owner = <<>>
    /\ \E i, j \in 1..Len(ParentingsRun) :
          /\ i < j
          /\ Len(ParentingsRun[i].act.owner) = 2
          /\ ParentingsRun[j].act.owner = ParentPath(ParentingsRun[i].act.owner)

====
